---- MODULE Spec2Model ----
(***************************************************************************)
(* Bible Viewer (src/bible_viewer.c): the verse index, the streaming       *)
(* search and the bookmark store, as state machines over the App struct.   *)
(*                                                                         *)
(* A file is a sequence of bytes (ASCII codes).  Verse ids, offsets and    *)
(* positions in the file are 0-based as in the C code; TLA+ sequences are  *)
(* 1-based, so byte number p of file f is f[p + 1].                        *)
(***************************************************************************)
EXTENDS Integers, Sequences, FiniteSets, TLC

VARIABLES
    corpus,       \* storage: the content of each discovered verse file (vfiles[i].path)
    vfile_sel,    \* App.vfile_sel, index of the active verse file
    vfile,        \* App.vfile: TRUE when a handle is open (non-NULL)
    fpos,         \* read position of the open handle
    index,        \* App.index[0 .. verse_count-1]: <<[offset, ref]>>
    verse_count,  \* App.verse_count
    search_buf,   \* App.search_buf[0 .. search_len-1]
    hits,         \* App.hits.idx[0 .. hits.count-1]
    vfile_io,     \* TRUE when the last of build_index, do_search and read_verse_text
                  \* called seek or read on the handle
    bmarks,       \* App.bmarks.idx[0 .. bmarks.count-1]
    bmfile,       \* storage: bookmarks.txt, [exists, data]
    view,         \* App.view
    return_view,  \* App.return_view
    running,      \* App.running
    cur_verse,    \* App.cur_verse, -1 when no verse is shown
    api_input_active,  \* App.api_input_active: the keyboard feeds the online lookup
    cfg_verse_file,    \* storage: the slot whose file name settings.txt holds as
                       \* verse_file, -1 when there is none
    font_choice,       \* App.font_choice
    api_trans_sel,     \* App.api_trans_sel
    api_book_sel,      \* App.api_book_sel, 0-based
    api_chapter_sel,   \* App.api_chapter_sel, 1-based, 0 before the first use
    api_verse_sel,     \* App.api_verse_sel, 1-based, 0 before the first use
    daily_verse_idx,   \* App.daily_verse_idx
    daily_verse_day,   \* App.daily_verse_day
    setfile,           \* storage: settings.txt, [exists, data]
    wrap_call,         \* the arguments of the last word_wrap(&app->wrap, text, cols)
    wrap,              \* App.wrap.lines[0 .. wrap.count-1]
    dir,               \* storage: the entries of DATA_DIR in scan order, <<[name, is_dir]>>
    vfiles,            \* App.vfiles[0 .. vfile_count-1]: the file name of each path
    pass_view,         \* App.view at the last entry to build_index or do_search
    handles,           \* verse file handles open (allocated and opened, not yet closed)
    handles_peak,      \* the most of them open at once during the last operation
    browse_sel,        \* App.browse_sel
    browse_scroll,     \* App.browse_scroll
    hits_sel,          \* App.hits.sel
    bmarks_sel,        \* App.bmarks.sel
    bmarks_rest,       \* App.bmarks.idx[bmarks.count ..]: the slots past the count that
                       \* were written; the slots after them are 0 (memset)
    open_call,         \* the last open_verse(app, vi, ret): vi, with verse_count then
    nav_events,        \* input events the event loop has handed to a handler
    tick_day,          \* furi_get_tick() in days: the day counter of the device
    pc            \* the operation that ran last; for the whole application the
                  \* position of bible_viewer_app: "start", "loop", "done"

passVars == <<corpus, vfile_sel, vfile, fpos, index, verse_count, search_buf, hits, vfile_io,
              pass_view, handles, handles_peak>>
bmVars == <<bmarks, bmfile>>
uiVars == <<view, return_view, running, cur_verse, api_input_active>>
setVars == <<font_choice, api_trans_sel, api_book_sel, api_chapter_sel, api_verse_sel,
             daily_verse_idx, daily_verse_day, setfile>>
wrapVars == <<wrap_call, wrap>>
dirVars == <<dir, vfiles>>
navVars == <<browse_sel, browse_scroll, hits_sel, bmarks_sel, bmarks_rest, open_call>>
runVars == <<nav_events, tick_day>>
\* before the first open_verse
NoOpenCall == [vi |-> -1, verse_count |-> 0]
callVars == <<pass_view, handles, handles_peak>>
\* before the first call: App.wrap is zeroed at construction
NoWrapCall == [text |-> <<>>, cols |-> 0]
vars == <<passVars, bmVars, uiVars, cfg_verse_file, setVars, wrapVars, dirVars, navVars,
          runVars, pc>>

(***************************************************************************)
(* Program constants                                                       *)
(***************************************************************************)
MAX_SEARCH_RESULTS == 50
MAX_BOOKMARKS == 75
MAX_VERSES == 600
REF_LEN == 24
LINE_BUF_LEN == 320
CH_CR == 13
CH_NL == 10
CH_PIPE == 124

(***************************************************************************)
(* Bounds of the model                                                     *)
(***************************************************************************)
MaxLines == 3        \* lines of a generated verse file
MaxQueryLen == 1     \* characters of a search query
ExtraLines == 2      \* records of the large files beyond the capacity
MaxBmLines == 3      \* lines of a generated bookmarks.txt
MaxToggleIds == 2    \* verse ids a bookmark toggle is asked for, besides the last

U16(x) == x % 65536
Min(a, b) == IF a < b THEN a ELSE b
Max(a, b) == IF a > b THEN a ELSE b

(***************************************************************************)
(* A C while loop, run as at most n passes of its body `step` from state   *)
(* s; s.done is set by the pass that leaves the loop (break, or the loop   *)
(* condition found false).  Halving keeps the evaluation depth at log n.   *)
(***************************************************************************)
RECURSIVE Iterate(_, _, _, _)
Iterate(step(_, _), f, n, s) ==
    IF s.done \/ n = 0 THEN s
    ELSE IF n = 1 THEN step(f, s)
    ELSE Iterate(step, f, n - (n \div 2), Iterate(step, f, n \div 2, s))

(***************************************************************************)
(* strchr(line, c): 0-based position of the first c, or -1 (NULL)          *)
(***************************************************************************)
strchr(line, c) ==
    IF \E i \in 1..Len(line) : line[i] = c
    THEN (CHOOSE i \in 1..Len(line) : line[i] = c /\ \A j \in 1..(i - 1) : line[j] # c) - 1
    ELSE -1

(***************************************************************************)
(* icontains: ASCII case-insensitive substring test                        *)
(***************************************************************************)
tolower(c) == IF c >= 65 /\ c <= 90 THEN c + 32 ELSE c

icontains(hay, needle) ==
    IF Len(needle) = 0 THEN FALSE
    ELSE IF Len(needle) > Len(hay) THEN FALSE
    ELSE \E i \in 0..(Len(hay) - Len(needle)) :
            \A j \in 0..(Len(needle) - 1) :
                tolower(hay[i + j + 1]) = tolower(needle[j + 1])

(***************************************************************************)
(* read_line: one line from the handle at position pos into a buffer of    *)
(* buf_sz bytes; '\r' dropped, stops after '\n', at end of file or when    *)
(* the buffer is full.  Returns the line and the new position.             *)
(***************************************************************************)
read_line_byte(f, s) ==
    IF Len(s.line) >= s.buf_sz - 1 THEN [s EXCEPT !.done = TRUE]
    ELSE IF s.pos >= Len(f) THEN [s EXCEPT !.done = TRUE]
    ELSE LET ch == f[s.pos + 1] IN
         IF ch = CH_CR THEN [s EXCEPT !.pos = @ + 1]
         ELSE IF ch = CH_NL THEN [s EXCEPT !.pos = @ + 1, !.done = TRUE]
         ELSE [s EXCEPT !.pos = @ + 1, !.line = Append(@, ch)]

read_line(f, pos, buf_sz) ==
    Iterate(read_line_byte, f, Len(f) + 1 - pos,
            [line |-> <<>>, pos |-> pos, buf_sz |-> buf_sz, done |-> FALSE])

(***************************************************************************)
(* build_index                                                             *)
(***************************************************************************)
\* the inner byte loop: offset counts the bytes read, eof marks a failed read
build_index_byte(f, s) ==
    IF Len(s.line) >= LINE_BUF_LEN - 1 THEN [s EXCEPT !.done = TRUE]
    ELSE IF s.offset >= Len(f) THEN [s EXCEPT !.eof = TRUE, !.done = TRUE]
    ELSE LET ch == f[s.offset + 1] IN
         IF ch = CH_CR THEN [s EXCEPT !.offset = @ + 1]
         ELSE IF ch = CH_NL THEN [s EXCEPT !.offset = @ + 1, !.done = TRUE]
         ELSE [s EXCEPT !.offset = @ + 1, !.line = Append(@, ch)]

\* build_index_entry with line_start taken once, before the loop
build_index_entry_hoisted(line_start, line, p) ==
    LET rlen == IF p >= REF_LEN THEN REF_LEN - 1 ELSE p
    IN  [offset |-> 0, ref |-> SubSeq(line, 1, rlen)]

\* the entry stored for a line: its start offset (uint32_t; the files modelled
\* are far shorter than 2^32 bytes) and the cached reference
build_index_entry(line_start, line, p) ==
    LET rlen == IF p >= REF_LEN THEN REF_LEN - 1 ELSE p
    IN  [offset |-> line_start, ref |-> SubSeq(line, 1, rlen)]

\* build_index_nopipe leaving the loop at the first line without '|'
build_index_nopipe_break(s, r) ==
    [s EXCEPT !.offset = r.offset, !.done = TRUE]

\* a non-blank line without '|': skipped; the pass ends only at end of file
build_index_nopipe(s, r) ==
    [s EXCEPT !.offset = r.offset, !.done = r.eof]

\* one pass of the outer loop: s = [index, offset, done]
build_index_line(f, s) ==
    IF ~(Len(s.index) < MAX_VERSES) THEN [s EXCEPT !.done = TRUE]
    ELSE LET line_start == s.offset
             r == Iterate(build_index_byte, f, Len(f) + 1 - s.offset,
                          [line |-> <<>>, offset |-> s.offset, eof |-> FALSE, done |-> FALSE])
             li == Len(r.line)
             p == strchr(r.line, CH_PIPE)
         IN  IF li = 0 /\ r.eof THEN [s EXCEPT !.offset = r.offset, !.done = TRUE]
             ELSE IF li = 0 THEN [s EXCEPT !.offset = r.offset]
             ELSE IF p < 0 THEN build_index_nopipe(s, r)
             ELSE [s EXCEPT !.offset = r.offset,
                            !.index = Append(@, build_index_entry(line_start, r.line, p)),
                            !.done = r.eof]

\* the result of build_index on an open handle: the index, the final
\* position of the handle and the return value
build_index(f) ==
    LET s == Iterate(build_index_line, f, Len(f) + 2,
                     [index |-> <<>>, offset |-> 0, done |-> FALSE])
    IN  [index |-> s.index, fpos |-> s.offset, ret |-> Len(s.index) > 0]

(***************************************************************************)
(* do_search                                                               *)
(***************************************************************************)
\* do_search_cond without the bound on the ordinal counter
do_search_cond_nocount(s) ==
    Len(s.hits) < MAX_SEARCH_RESULTS

\* do_search_cond without the bound on the hits
do_search_cond_nocap(s) ==
    s.verse_num < s.verse_count

\* the loop condition
do_search_cond(s) ==
    s.verse_num < s.verse_count /\ Len(s.hits) < MAX_SEARCH_RESULTS

\* one pass of the loop: s = [hits, verse_num, verse_count, needle, pos, done]
do_search_line(f, s) ==
    IF ~do_search_cond(s)
    THEN [s EXCEPT !.done = TRUE]
    ELSE LET r == read_line(f, s.pos, LINE_BUF_LEN) IN
         IF Len(r.line) = 0
         THEN \* one more byte, to tell a blank line from the end of the file
              IF r.pos >= Len(f) THEN [s EXCEPT !.pos = r.pos, !.done = TRUE]
              ELSE [s EXCEPT !.pos = r.pos + 1]
         ELSE [s EXCEPT !.pos = r.pos,
                        !.hits = IF icontains(r.line, s.needle)
                                 THEN Append(@, s.verse_num) ELSE @,
                        !.verse_num = @ + 1]

\* the result of do_search: the hits, the handle's final position and
\* whether the handle was used (seek or read) at all
\* do_search_skip without the test of the query length
do_search_skip_noempty(open, needle) ==
    ~open

\* the early return: empty query or no handle
do_search_skip(open, needle) ==
    Len(needle) = 0 \/ ~open

do_search(f, open, pos, vcount, needle) ==
    IF do_search_skip(open, needle)
    THEN [hits |-> <<>>, fpos |-> pos, io |-> FALSE]
    ELSE LET s == Iterate(do_search_line, f, Len(f) + 2,
                          [hits |-> <<>>, verse_num |-> 0, verse_count |-> vcount,
                           needle |-> needle, pos |-> 0, done |-> FALSE])
         IN  [hits |-> s.hits, fpos |-> s.pos, io |-> TRUE]

(***************************************************************************)
(* Bookmarks                                                               *)
(***************************************************************************)
NoFile == [exists |-> FALSE, data |-> <<>>]

\* the decimal digits of n, as printf("%u") writes them
RECURSIVE utoa(_)
utoa(n) == IF n < 10 THEN <<48 + n>> ELSE Append(utoa(n \div 10), 48 + (n % 10))

\* atoi: leading white space, an optional sign, then the digits up to the
\* first other character
isspace(c) == c = 32 \/ (c >= 9 /\ c <= 13)
isdigit(c) == c >= 48 /\ c <= 57

RECURSIVE atoi_digits(_, _, _)
atoi_digits(s, i, acc) ==
    IF i > Len(s) \/ ~isdigit(s[i]) THEN acc
    ELSE atoi_digits(s, i + 1, acc * 10 + (s[i] - 48))

RECURSIVE atoi_from(_, _)
atoi_from(s, i) ==
    IF i > Len(s) THEN 0
    ELSE IF isspace(s[i]) THEN atoi_from(s, i + 1)
    ELSE IF s[i] = 45 THEN 0 - atoi_digits(s, i + 1, 0)
    ELSE IF s[i] = 43 THEN atoi_digits(s, i + 1, 0)
    ELSE atoi_digits(s, i, 0)

atoi(s) == atoi_from(s, 1)

\* bmarks_save: the whole list, one "%u\n" an entry, over the old file;
\* nothing is written when the file cannot be opened
bmarks_save_entry(bm, s) ==
    IF ~(s.i < Len(bm)) THEN [s EXCEPT !.done = TRUE]
    ELSE [s EXCEPT !.i = @ + 1, !.out = @ \o utoa(bm[s.i + 1]) \o <<CH_NL>>]

bmarks_text(bm) ==
    Iterate(bmarks_save_entry, bm, Len(bm) + 1, [out |-> <<>>, i |-> 0, done |-> FALSE]).out

bmarks_save(bm, old, open_ok) ==
    IF ~open_ok THEN old ELSE [exists |-> TRUE, data |-> bmarks_text(bm)]

\* bmarks_load: the buffered characters of a line, taken as a number
bmarks_load_entry(s) ==
    LET v == U16(atoi(s.buf)) IN
    IF v < s.verse_count THEN Append(s.list, v) ELSE s.list

\* one pass of the loop of bmarks_load: s = [list, buf, pos, verse_count, done]
bmarks_load_byte(f, s) ==
    IF ~(Len(s.list) < MAX_BOOKMARKS) THEN [s EXCEPT !.done = TRUE]
    ELSE IF s.pos >= Len(f)
    THEN [s EXCEPT !.list = IF Len(s.buf) > 0 THEN bmarks_load_entry(s) ELSE @,
                   !.done = TRUE]
    ELSE LET ch == f[s.pos + 1] IN
         IF ch = CH_NL \/ ch = CH_CR
         THEN IF Len(s.buf) > 0
              THEN [s EXCEPT !.pos = @ + 1, !.list = bmarks_load_entry(s), !.buf = <<>>]
              ELSE [s EXCEPT !.pos = @ + 1]
         ELSE IF Len(s.buf) < 8 - 1
              THEN [s EXCEPT !.pos = @ + 1, !.buf = Append(@, ch)]
              ELSE [s EXCEPT !.pos = @ + 1]

\* the list bmarks_load leaves in memory
bmarks_load(file, vcount) ==
    IF ~file.exists THEN <<>>
    ELSE Iterate(bmarks_load_byte, file.data, Len(file.data) + 2,
                 [list |-> <<>>, buf |-> <<>>, pos |-> 0, verse_count |-> vcount,
                  done |-> FALSE]).list

is_bookmarked(bm, vi) == \E i \in 1..Len(bm) : bm[i] = vi

\* toggle_bmark, the list: the first entry equal to vi removed, or vi
\* appended while there is room
toggle_remove(bm, i) == SubSeq(bm, 1, i - 1) \o SubSeq(bm, i + 1, Len(bm))

toggle_list(bm, vi) ==
    IF is_bookmarked(bm, vi)
    THEN toggle_remove(bm, CHOOSE i \in 1..Len(bm) :
                               bm[i] = vi /\ \A j \in 1..(i - 1) : bm[j] # vi)
    ELSE IF Len(bm) < MAX_BOOKMARKS THEN Append(bm, vi)
    ELSE bm

\* toggle_bmark saves after a removal and after an addition, not when the
\* list is full
toggle_saves(bm, vi) == is_bookmarked(bm, vi) \/ Len(bm) < MAX_BOOKMARKS

\* the user-interface fields while a single operation is exercised: the
\* main menu of a running application, no verse shown
UiIdle ==
    /\ view = "ViewMainMenu"
    /\ return_view = "ViewMainMenu"
    /\ running = TRUE
    /\ cur_verse = -1
    /\ api_input_active = FALSE

\* the file name (the path after its last '/') of the discovered file in
\* slot sel; discovery lists verses_en.txt, verses_esv.txt, verses_de.txt in this order
VFILE_NAMES ==
    << <<118, 101, 114, 115, 101, 115, 95, 101, 110, 46, 116, 120, 116>>,
       <<118, 101, 114, 115, 101, 115, 95, 101, 115, 118, 46, 116, 120, 116>>,
       <<118, 101, 114, 115, 101, 115, 95, 100, 101, 46, 116, 120, 116>> >>

\* the directory, the record of calls and the list cursors where a
\* specification does not follow them: the cursors as constructed (memset 0), the files of corpus under the canonical names discovery
\* lists first, no pass entered, the handle of App.vfile
EnvIdle ==
    /\ dir = <<>>
    /\ vfiles = [i \in 1..Len(corpus) |-> VFILE_NAMES[i]]
    /\ pass_view = "none"
    /\ handles = (IF vfile THEN 1 ELSE 0)
    /\ handles_peak = (IF vfile THEN 1 ELSE 0)
    /\ browse_sel = 0
    /\ browse_scroll = 0
    /\ hits_sel = 0
    /\ bmarks_sel = 0
    /\ bmarks_rest = <<>>
    /\ open_call = NoOpenCall
    /\ nav_events = 0
    /\ tick_day = 0

\* the settings, the picker and the wrapped text as bible_viewer_app
\* constructs them (memset 0), with no settings.txt on the card
SetIdle ==
    /\ font_choice = 0
    /\ api_trans_sel = 0
    /\ api_book_sel = 0
    /\ api_chapter_sel = 0
    /\ api_verse_sel = 0
    /\ daily_verse_idx = 0
    /\ daily_verse_day = 0
    /\ setfile = NoFile
    /\ wrap_call = NoWrapCall
    /\ wrap = <<>>
    /\ EnvIdle

(***************************************************************************)
(* The verse files the passes are run on                                   *)
(***************************************************************************)
\* lines of a generated file: blank, "\r", "a|b|a", "B|a|b\r", "ab", "b|", "|"
LineKinds ==
    { <<>>, <<CH_CR>>, <<97, CH_PIPE, 98, CH_PIPE, 97>>,
      <<66, CH_PIPE, 97, CH_PIPE, 98, CH_CR>>, <<97, 98>>, <<98, CH_PIPE>>, <<CH_PIPE>> }

RECURSIVE JoinLines(_, _)
\* the lines, each ended by '\n' (the last one only when final_nl)
JoinLines(ls, final_nl) ==
    IF Len(ls) = 0 THEN <<>>
    ELSE IF Len(ls) = 1 THEN (IF final_nl THEN ls[1] \o <<CH_NL>> ELSE ls[1])
    ELSE ls[1] \o <<CH_NL>> \o JoinLines(Tail(ls), final_nl)

SmallFiles ==
    { JoinLines(ls, nl) : ls \in UNION { [1..n -> LineKinds] : n \in 0..MaxLines },
                          nl \in BOOLEAN }

\* n copies of 'a'
Pad(n) == [i \in 1..n |-> 97]

\* lines around the buffer length: 319 or 320 characters, with and without
\* a '|' beyond the buffer
LongLines ==
    { h \o Pad(LINE_BUF_LEN - 1 - Len(h) + d) \o t :
        h \in { <<>>, <<98, CH_PIPE>> }, d \in 0..1,
        t \in { <<>>, <<CH_PIPE, 98, CH_PIPE, 66>> } }

LongFiles ==
    { JoinLines(pre \o <<l>> \o post, TRUE) :
        l \in LongLines,
        pre \in { <<>>, <<<<97, 98>>>> },
        post \in { <<>>, <<<<66, CH_PIPE, 97, CH_PIPE, 98>>>> } }

\* line i of the large file: "a|b|a", every 7th "b|B|b", every 101st blank ("\r\r\r\r\r")
LargeLine(i) ==
    IF i % 101 = 0 THEN <<CH_CR, CH_CR, CH_CR, CH_CR, CH_CR>>
    ELSE IF i % 7 = 0 THEN <<98, CH_PIPE, 66, CH_PIPE, 98>>
    ELSE <<97, CH_PIPE, 98, CH_PIPE, 97>>

\* MAX_VERSES + ExtraLines records and 6 blank lines, 6 bytes a line
LargeFile ==
    [k \in 1..(6 * (MAX_VERSES + ExtraLines + 6)) |->
        IF k % 6 = 0 THEN CH_NL ELSE LargeLine((k - 1) \div 6 + 1)[k % 6]]

PassFiles == SmallFiles \cup LongFiles \cup {LargeFile}

\* the queries typed: up to MaxQueryLen characters of 'a', 'B', '|'
Queries == UNION { [1..n -> {97, 66, CH_PIPE}] : n \in 0..MaxQueryLen }

\* the file behind the handle
ActiveFile == corpus[vfile_sel + 1]

(***************************************************************************)
(* The passes over one open verse file                                     *)
(***************************************************************************)
PassInit ==
    /\ corpus \in { <<f>> : f \in PassFiles }
    /\ vfile_sel = 0
    /\ vfile = TRUE
    /\ fpos = 0
    /\ index = <<>>
    /\ verse_count = 0
    /\ search_buf = <<>>
    /\ hits = <<>>
    /\ vfile_io = FALSE
    /\ bmarks = <<>>
    /\ bmfile = NoFile
    /\ UiIdle
    /\ SetIdle
    /\ cfg_verse_file = -1
    /\ pc = "open_verse_file"

\* build_index(app) on the open handle
BuildIndexCall ==
    /\ vfile
    /\ \E b \in {build_index(ActiveFile)} :
         /\ index' = b.index
         /\ verse_count' = Len(b.index)
         /\ fpos' = b.fpos
    /\ vfile_io' = TRUE
    /\ pc' = "build_index"
    /\ UNCHANGED <<corpus, vfile_sel, vfile, search_buf, hits, bmVars, uiVars, cfg_verse_file,
                   setVars, wrapVars, dirVars, navVars, runVars, callVars>>

\* do_search(app) with the query q in search_buf, once an index was built
DoSearchCall(q) ==
    /\ verse_count > 0
    /\ search_buf' = q
    /\ \E r \in {do_search(ActiveFile, vfile, fpos, verse_count, q)} :
         /\ hits' = r.hits
         /\ fpos' = r.fpos
         /\ vfile_io' = r.io
    /\ pc' = "do_search"
    /\ UNCHANGED <<corpus, vfile_sel, vfile, index, verse_count, bmVars, uiVars, cfg_verse_file,
                   setVars, wrapVars, dirVars, navVars, runVars, callVars>>

PassNext ==
    \/ BuildIndexCall
    \/ \E q \in Queries : DoSearchCall(q)

SpecPass == PassInit /\ [][PassNext]_vars

(***************************************************************************)
(* The bookmark store over a loaded verse file                             *)
(***************************************************************************)
\* lines of a generated bookmarks.txt: "0", "1", "5", "65537", blank
BmLineKinds == { <<48>>, <<49>>, <<53>>, <<54, 53, 53, 51, 55>>, <<>> }

BmSmallFiles ==
    { [exists |-> TRUE, data |-> JoinLines(ls, nl)] :
        ls \in UNION { [1..n -> BmLineKinds] : n \in 0..MaxBmLines }, nl \in BOOLEAN }

\* the line of the large bookmarks.txt that holds id i, then '\n': 3 digits
BmLargeFile ==
    [exists |-> TRUE,
     data |-> [k \in 1..(4 * (MAX_BOOKMARKS + ExtraLines)) |->
                 LET i == (k - 1) \div 4 IN
                 IF k % 4 = 0 THEN CH_NL
                 ELSE IF k % 4 = 1 THEN 48 + (i \div 100)
                 ELSE IF k % 4 = 2 THEN 48 + ((i \div 10) % 10)
                 ELSE 48 + (i % 10)]]

\* the verse file of the small bookmark runs: "a|b|a", "ab", "b|B|b", "B|a|b"
BmVerseFile ==
    JoinLines(<< <<97, CH_PIPE, 98, CH_PIPE, 97>>, <<97, 98>>,
                 <<98, CH_PIPE, 66, CH_PIPE, 98>>, <<66, CH_PIPE, 97, CH_PIPE, 98>> >>, TRUE)

\* the verse ids a toggle is asked for (cur_verse): the first MaxToggleIds
\* and the last
ToggleIds == { v \in 0..(verse_count - 1) : v < MaxToggleIds \/ v = verse_count - 1 }

BmInit ==
    /\ \E d \in ({ <<BmVerseFile, b>> : b \in BmSmallFiles \cup {NoFile} }
                    \cup { <<LargeFile, BmLargeFile>> }) :
          /\ corpus = <<d[1]>>
          /\ bmfile = d[2]
          /\ \E b \in {build_index(d[1])} :
               /\ index = b.index
               /\ verse_count = Len(b.index)
               /\ fpos = b.fpos
    /\ vfile_sel = 0
    /\ vfile = TRUE
    /\ search_buf = <<>>
    /\ hits = <<>>
    /\ vfile_io = TRUE
    /\ bmarks = <<>>
    /\ UiIdle
    /\ SetIdle
    /\ cfg_verse_file = -1
    /\ pc = "build_index"

\* bmarks_load(app), once, after the index was built
BmarksLoadCall ==
    /\ pc = "build_index"
    /\ bmarks' = bmarks_load(bmfile, verse_count)
    /\ pc' = "bmarks_load"
    /\ UNCHANGED <<passVars, bmfile, uiVars, cfg_verse_file, setVars, wrapVars, dirVars, navVars, runVars>>

\* toggle_bmark(app, vi); the save may find the file not writable
ToggleBmarkCall(vi, open_ok) ==
    /\ pc # "build_index"
    /\ bmarks' = toggle_list(bmarks, vi)
    /\ bmfile' = IF toggle_saves(bmarks, vi)
                 THEN bmarks_save(toggle_list(bmarks, vi), bmfile, open_ok)
                 ELSE bmfile
    /\ pc' = "toggle_bmark"
    /\ UNCHANGED <<passVars, uiVars, cfg_verse_file, setVars, wrapVars, dirVars, navVars, runVars>>

BmNext ==
    \/ BmarksLoadCall
    \/ \E vi \in ToggleIds, open_ok \in BOOLEAN : ToggleBmarkCall(vi, open_ok)

SpecBmark == BmInit /\ [][BmNext]_vars

(***************************************************************************)
(* The whole application: bible_viewer_app, from construction through the  *)
(* startup load and the event loop to the cleanup.  This specification     *)
(* follows the corpus, the index, the search, the bookmarks and the views; *)
(* of settings.txt it follows the verse_file key (cfg_verse_file).  The    *)
(* other settings, the picker and the wrapped lines are followed by        *)
(* SpecSettings, SpecPicker and SpecWrap and stay as constructed here.     *)
(***************************************************************************)
\* parse_line: the three fields of "ref|book|text", each cut to its buffer;
\* a line with fewer than two '|' is malformed
parse_line_onepipe(line, ref_sz, book_sz, text_sz) ==
    LET p1 == strchr(line, CH_PIPE)
    IN  IF p1 < 0
        THEN [ok |-> FALSE, ref |-> <<>>, book |-> <<>>, text |-> <<>>]
        ELSE [ok |-> TRUE,
              ref |-> SubSeq(line, 1, Min(p1, ref_sz - 1)),
              book |-> <<>>,
              text |-> SubSeq(line, p1 + 2, p1 + 1 + Min(Len(line) - p1 - 1, text_sz - 1))]
parse_line(line, ref_sz, book_sz, text_sz) ==
    LET p1 == strchr(line, CH_PIPE)
        rest == SubSeq(line, p1 + 2, Len(line))
        q == strchr(rest, CH_PIPE)
        p2 == p1 + 1 + q
    IN  IF p1 < 0 \/ q < 0
        THEN [ok |-> FALSE, ref |-> <<>>, book |-> <<>>, text |-> <<>>]
        ELSE [ok |-> TRUE,
              ref |-> SubSeq(line, 1, Min(p1, ref_sz - 1)),
              book |-> SubSeq(line, p1 + 2, p1 + 1 + Min(p2 - p1 - 1, book_sz - 1)),
              text |-> SubSeq(line, p2 + 2, p2 + 1 + Min(Len(line) - p2 - 1, text_sz - 1))]

\* read_verse_text: the text of verse idx, read at its offset; fails without
\* a handle, for an id beyond verse_count and for a line that does not parse
read_verse_text(f, open, pos, idx, vcount, vi, buf_sz) ==
    IF ~open \/ vi >= vcount
    THEN [ok |-> FALSE, text |-> <<>>, fpos |-> pos, io |-> FALSE]
    ELSE LET r == read_line(f, idx[vi + 1].offset, LINE_BUF_LEN)
             p == parse_line(r.line, REF_LEN, 32, buf_sz)
         IN  [ok |-> p.ok, text |-> p.text, fpos |-> r.pos, io |-> TRUE]

\* input events
InputTypes == {"Release", "Short", "Long", "Repeat"}
InputKeys == {"Up", "Down", "Left", "Right", "Ok", "Back"}
InputEvents == [type : InputTypes, key : InputKeys]
ShortOrRepeat(ev) == ev.type = "Short" \/ ev.type = "Repeat"

\* the verse files of the whole-application runs: "ab" and a blank line (no
\* record), "a|b|a" (one record), "a|b|a" and "B|a" (two records, the second
\* without a text field)
NoRecFile == JoinLines(<< <<97, 98>>, <<>> >>, TRUE)
OneRecFile == JoinLines(<< <<97, CH_PIPE, 98, CH_PIPE, 97>> >>, TRUE)
TwoRecFile == JoinLines(<< <<97, CH_PIPE, 98, CH_PIPE, 97>>, <<66, CH_PIPE, 97>> >>, TRUE)
BmDupFile == [exists |-> TRUE, data |-> JoinLines(<< <<48>>, <<48>> >>, FALSE)]

\* what discovery finds on the card, with the bookmarks.txt beside it
AppDisks ==
    { <<(<<>>), NoFile>>,
      <<(<<NoRecFile>>), NoFile>>,
      <<(<<OneRecFile, NoRecFile>>), NoFile>>,
      <<(<<OneRecFile, TwoRecFile>>), BmDupFile>> }

\* the verse ids a verse is opened at: the first ones and the last one
OpenIds == { v \in 0..(verse_count - 1) : v < MaxToggleIds \/ v = verse_count - 1 }

\* the state bible_viewer_app constructs (memset 0, then the three fields)
\* before discovery, on each card
Init ==
    /\ \E d \in AppDisks :
          /\ corpus = d[1]
          /\ bmfile = d[2]
          /\ cfg_verse_file \in -1..(Len(d[1]) - 1)
    /\ vfile_sel = 0
    /\ vfile = FALSE
    /\ fpos = 0
    /\ index = <<>>
    /\ verse_count = 0
    /\ search_buf = <<>>
    /\ hits = <<>>
    /\ vfile_io = FALSE
    /\ bmarks = <<>>
    /\ view = "ViewLoading"
    /\ return_view = "ViewMainMenu"
    /\ running = TRUE
    /\ cur_verse = -1
    /\ api_input_active = FALSE
    /\ SetIdle
    /\ pc = "start"

\* settings_save: verse_file is the name of the active file (storage
\* writes succeed in these runs)
settings_save(sel) == sel

\* settings_load, the verse_file key: the slot of the saved name, else the
\* slot already selected
settings_load(sel, saved) == IF saved >= 0 THEN saved ELSE sel

\* open_verse_file, the handles: the handle App.vfile holds is closed and
\* freed, then the file is opened; a failed open frees its handle.  The
\* count of open handles after it and the most open at once during it
open_verse_file_noclose(open, h, open_ok) ==
    [handles |-> IF open_ok THEN h + 1 ELSE h,
     peak |-> IF open_ok THEN h + 1 ELSE h]
open_verse_file(open, h, open_ok) ==
    LET closed == IF open THEN h - 1 ELSE h
    IN  [handles |-> IF open_ok THEN closed + 1 ELSE closed,
         peak |-> Max(h, IF open_ok THEN closed + 1 ELSE closed)]

\* open_verse_file + build_index for slot sel, as startup and the switch run
\* them: the handle, its position, the index and the verdict (first with the
\* verdict of build_index not looked at)
load_verse_file_okempty(sel, open_ok) ==
    LET b == build_index(corpus[sel + 1])
    IN  IF ~open_ok
        THEN [vfile |-> FALSE, fpos |-> 0, index |-> index,
              verse_count |-> verse_count, io |-> vfile_io, ok |-> FALSE]
        ELSE [vfile |-> TRUE, fpos |-> b.fpos, index |-> b.index,
              verse_count |-> Len(b.index), io |-> TRUE, ok |-> TRUE]
load_verse_file(sel, open_ok) ==
    LET b == build_index(corpus[sel + 1])
    IN  IF ~open_ok
        THEN [vfile |-> FALSE, fpos |-> 0, index |-> index,
              verse_count |-> verse_count, io |-> vfile_io, ok |-> FALSE]
        ELSE [vfile |-> TRUE, fpos |-> b.fpos, index |-> b.index,
              verse_count |-> Len(b.index), io |-> TRUE, ok |-> b.ret]

\* discovery and the startup load (bible_viewer_app up to the event loop)
Startup(open_ok) ==
    /\ pc = "start"
    /\ pc' = "loop"
    /\ IF Len(corpus) = 0
       THEN /\ view' = "ViewError"
            /\ UNCHANGED <<vfile_sel, vfile, fpos, index, verse_count, vfile_io, bmarks,
                           callVars>>
       ELSE \E sel \in {settings_load(vfile_sel, cfg_verse_file)} :
            \E l \in {load_verse_file(sel, open_ok)} :
            \E h \in {open_verse_file(vfile, handles, open_ok)} :
                /\ handles' = h.handles
                \* discovery has opened and closed a probe of a file it found
                /\ handles_peak' = Max(1, h.peak)
                /\ pass_view' = (IF open_ok THEN view ELSE pass_view)
                /\ vfile_sel' = sel
                /\ vfile' = l.vfile
                /\ fpos' = l.fpos
                /\ index' = l.index
                /\ verse_count' = l.verse_count
                /\ vfile_io' = l.io
                /\ bmarks' = IF l.ok THEN bmarks_load(bmfile, l.verse_count) ELSE bmarks
                /\ view' = IF l.ok THEN "ViewMainMenu" ELSE "ViewError"
    /\ UNCHANGED <<corpus, search_buf, hits, bmfile, return_view, running,
                   cur_verse, api_input_active, cfg_verse_file, setVars, wrapVars, dirVars, navVars, runVars>>

fileVars == <<vfile_sel, vfile, fpos, index, verse_count, vfile_io,
              pass_view, handles, handles_peak>>

\* a handler that returns without a change (a key it does not handle, or a
\* key that only moves a cursor or scrolls)
Ignore == UNCHANGED <<fileVars, search_buf, hits, bmVars, uiVars, cfg_verse_file>>

\* app->view = v
GoView(v) ==
    /\ view' = v
    /\ UNCHANGED <<fileVars, search_buf, hits, bmVars, return_view, running,
                   cur_verse, api_input_active, cfg_verse_file>>

\* settings_save(app), then app->view = v
SaveAndGoView(v) ==
    /\ cfg_verse_file' = settings_save(vfile_sel)
    /\ view' = v
    /\ UNCHANGED <<fileVars, search_buf, hits, bmVars, return_view, running,
                   cur_verse, api_input_active>>

\* open_verse(app, vi, ret), with the view v the handler leaves and the
\* settings file as the handler leaves it
open_verse(vi, ret, v, cfg) ==
    \E r \in {read_verse_text(ActiveFile, vfile, fpos, index, verse_count, vi, LINE_BUF_LEN)} :
        /\ cur_verse' = vi
        /\ return_view' = ret
        /\ fpos' = r.fpos
        /\ vfile_io' = r.io
        /\ view' = v
        /\ cfg_verse_file' = cfg
        /\ UNCHANGED <<vfile_sel, vfile, index, verse_count, search_buf, hits,
                       bmVars, running, api_input_active, callVars>>

\* toggle_bmark(app, vi) (storage writes succeed in these runs)
toggle_bmark(vi) ==
    /\ bmarks' = toggle_list(bmarks, vi)
    /\ bmfile' = IF toggle_saves(bmarks, vi)
                 THEN bmarks_save(toggle_list(bmarks, vi), bmfile, TRUE)
                 ELSE bmfile
    /\ UNCHANGED <<fileVars, search_buf, hits, uiVars, cfg_verse_file>>

\* the event loop hands an event to the handler of view v
Dispatch(v) ==
    /\ pc = "loop"
    /\ running
    /\ view = v
    /\ UNCHANGED <<corpus, pc, setVars, wrapVars, dirVars, navVars, runVars>>

MenuChoice == {"MenuBrowse", "MenuSearch", "MenuRandom", "MenuDaily",
               "MenuBookmarks", "MenuApi", "MenuSettings", "MenuAbout"}

\* on_main_menu, OK on the entry menu_sel; vi is the verse the generator
\* picks or the stored daily verse, new_day whether the daily verse is picked
\* anew and saved
on_main_menu_ok(menu_sel) ==
    CASE menu_sel = "MenuBrowse" -> GoView("ViewBrowseList")
      [] menu_sel = "MenuSearch" ->
            /\ search_buf' = <<>>
            /\ view' = "ViewSearchInput"
            /\ UNCHANGED <<fileVars, hits, bmVars, return_view, running,
                           cur_verse, api_input_active, cfg_verse_file>>
      [] menu_sel = "MenuRandom" ->
            \E vi \in OpenIds :
               open_verse(vi, "ViewRandomVerse", "ViewRandomVerse", cfg_verse_file)
      [] menu_sel = "MenuDaily" ->
            \E vi \in OpenIds, new_day \in BOOLEAN :
               open_verse(vi, "ViewDailyVerse", "ViewDailyVerse",
                          IF new_day THEN settings_save(vfile_sel) ELSE cfg_verse_file)
      [] menu_sel = "MenuBookmarks" -> GoView("ViewBookmarks")
      [] menu_sel = "MenuSettings" -> GoView("ViewSettings")
      [] menu_sel = "MenuAbout" -> GoView("ViewAbout")
      [] menu_sel = "MenuApi" -> GoView("ViewApiMenu")

on_main_menu(ev) ==
    /\ Dispatch("ViewMainMenu")
    /\ IF ~ShortOrRepeat(ev) THEN Ignore
       ELSE IF ev.key = "Back"
       THEN /\ running' = FALSE
            /\ UNCHANGED <<fileVars, search_buf, hits, bmVars, view, return_view,
                           cur_verse, api_input_active, cfg_verse_file>>
       ELSE IF ev.key = "Ok" THEN \E menu_sel \in MenuChoice : on_main_menu_ok(menu_sel)
       ELSE Ignore

\* on_browse; sel is the cursor, at any verse the keys can move it to
on_browse(ev) ==
    /\ Dispatch("ViewBrowseList")
    /\ IF ~ShortOrRepeat(ev) THEN Ignore
       ELSE IF ev.key = "Ok"
       THEN \E sel \in OpenIds :
               open_verse(sel, "ViewBrowseList", "ViewVerseRead", cfg_verse_file)
       ELSE IF ev.key = "Back" THEN GoView("ViewMainMenu")
       ELSE Ignore

\* on_verse_read: previous / next verse, back, long OK toggles the bookmark
on_verse_read(ev) ==
    /\ Dispatch("ViewVerseRead")
    /\ IF ShortOrRepeat(ev)
       THEN IF ev.key = "Left" /\ cur_verse > 0
            THEN /\ (cur_verse - 1) \in OpenIds
                 /\ open_verse(U16(cur_verse - 1), return_view, "ViewVerseRead", cfg_verse_file)
            ELSE IF ev.key = "Right" /\ U16(cur_verse + 1) < verse_count
            THEN /\ (cur_verse + 1) \in OpenIds
                 /\ open_verse(U16(cur_verse + 1), return_view, "ViewVerseRead", cfg_verse_file)
            ELSE IF ev.key = "Back" THEN GoView(return_view)
            ELSE Ignore
       ELSE IF ev.type = "Long" /\ ev.key = "Ok" /\ cur_verse >= 0
       THEN toggle_bmark(U16(cur_verse))
       ELSE Ignore

\* search_buf_backspace: the last character (all characters are ASCII)
search_buf_backspace_none(buf) == buf
search_buf_backspace(buf) == IF Len(buf) = 0 THEN buf ELSE SubSeq(buf, 1, Len(buf) - 1)

\* search_buf with ch typed at its end
Typed(ch) ==
    /\ Len(search_buf) < MaxQueryLen
    /\ search_buf' = Append(search_buf, ch)
    /\ UNCHANGED <<fileVars, hits, bmVars, uiVars, cfg_verse_file>>

Erased ==
    /\ search_buf' = search_buf_backspace(search_buf)
    /\ UNCHANGED <<fileVars, hits, bmVars, uiVars, cfg_verse_file>>

\* the key of the on-screen keyboard under the cursor
KbKeys == {"a", "|", "DEL", "SPC", "CAP", "SYM", "GO"}

\* on_search_input, a short OK on the key kb; api_ok is the outcome of the
\* online lookup
on_search_input_ok(kb) ==
    CASE kb = "DEL" -> Erased
      [] kb = "SPC" -> Typed(32)
      [] kb = "a" -> Typed(97)
      [] kb = "|" -> Typed(CH_PIPE)
      [] kb = "GO" ->
            IF api_input_active
            THEN /\ api_input_active' = FALSE
                 /\ \E api_ok \in BOOLEAN :
                       view' = IF api_ok THEN "ViewApiResult" ELSE "ViewApiError"
                 /\ UNCHANGED <<fileVars, search_buf, hits, bmVars, return_view,
                                running, cur_verse, cfg_verse_file>>
            ELSE \E r \in {do_search(ActiveFile, vfile, fpos, verse_count, search_buf)} :
                     /\ hits' = r.hits
                     /\ fpos' = r.fpos
                     /\ vfile_io' = r.io
                     /\ view' = "ViewSearchResults"
                     /\ pass_view' = view
                     /\ UNCHANGED <<vfile_sel, vfile, index, verse_count, search_buf,
                                    bmVars, return_view, running, cur_verse,
                                    api_input_active, cfg_verse_file, handles,
                                    handles_peak>>
      [] OTHER -> Ignore

\* on_search_input; a repeat of OK is dropped while kb_long_consumed is set
on_search_input(ev) ==
    /\ Dispatch("ViewSearchInput")
    /\ IF ev.type = "Long" /\ ev.key = "Ok"
       THEN \E kb \in KbKeys : IF kb = "a" THEN Typed(65) ELSE Ignore
       ELSE IF ev.type = "Release" /\ ev.key = "Ok" THEN Ignore
       ELSE IF ~ShortOrRepeat(ev) THEN Ignore
       ELSE IF ev.key = "Ok"
       THEN \/ ev.type = "Repeat" /\ Ignore
            \/ \E kb \in KbKeys : on_search_input_ok(kb)
       ELSE IF ev.key = "Back"
       THEN IF Len(search_buf) > 0 THEN Erased
            ELSE /\ api_input_active' = FALSE
                 /\ view' = IF api_input_active THEN "ViewApiMenu" ELSE "ViewMainMenu"
                 /\ UNCHANGED <<fileVars, search_buf, hits, bmVars, return_view,
                                running, cur_verse, cfg_verse_file>>
       ELSE Ignore

\* the positions of a list of n entries the cursor is put at
ListSels(n) == { s \in 0..(n - 1) : s < MaxToggleIds \/ s = n - 1 }

\* on_search_results; sel is hits.sel
on_search_results(ev) ==
    /\ Dispatch("ViewSearchResults")
    /\ IF ~ShortOrRepeat(ev) THEN Ignore
       ELSE IF ev.key = "Ok" /\ Len(hits) > 0
       THEN \E sel \in ListSels(Len(hits)) :
               open_verse(hits[sel + 1], "ViewSearchResults", "ViewVerseRead", cfg_verse_file)
       ELSE IF ev.key = "Back" THEN GoView("ViewSearchInput")
       ELSE Ignore

\* on_random_daily; vi is the verse the generator picks
on_random_daily(ev, is_random) ==
    /\ Dispatch(IF is_random THEN "ViewRandomVerse" ELSE "ViewDailyVerse")
    /\ IF ShortOrRepeat(ev)
       THEN IF ev.key = "Ok" /\ is_random
            THEN \E vi \in OpenIds :
                    open_verse(vi, "ViewRandomVerse", "ViewRandomVerse", cfg_verse_file)
            ELSE IF ev.key = "Back" THEN GoView("ViewMainMenu")
            ELSE Ignore
       ELSE IF ev.type = "Long" /\ ev.key = "Ok" /\ cur_verse >= 0
       THEN toggle_bmark(U16(cur_verse))
       ELSE Ignore

\* on_bookmarks; sel is bmarks.sel
on_bookmarks(ev) ==
    /\ Dispatch("ViewBookmarks")
    /\ IF ~ShortOrRepeat(ev) THEN Ignore
       ELSE IF ev.key = "Ok" /\ Len(bmarks) > 0
       THEN \E sel \in ListSels(Len(bmarks)) :
               open_verse(bmarks[sel + 1], "ViewBookmarks", "ViewVerseRead", cfg_verse_file)
       ELSE IF ev.key = "Back" THEN GoView("ViewMainMenu")
       ELSE Ignore

\* on_settings, OK in the Bible Version section on a file other than the
\* active one: switch_verse_file, then the error view or the reset
on_settings_switch(settings_sel, open_ok) ==
    \E l \in {load_verse_file(settings_sel, open_ok)} :
    \E h \in {open_verse_file(vfile, handles, open_ok)} :
        /\ handles' = h.handles
        /\ handles_peak' = h.peak
        /\ pass_view' = (IF open_ok THEN "ViewLoading" ELSE pass_view)
        /\ vfile_sel' = settings_sel
        /\ vfile' = l.vfile
        /\ fpos' = l.fpos
        /\ index' = l.index
        /\ verse_count' = l.verse_count
        /\ vfile_io' = l.io
        /\ IF ~l.ok
           THEN /\ view' = "ViewError"
                /\ UNCHANGED <<cur_verse, bmarks, cfg_verse_file>>
           ELSE /\ cur_verse' = -1
                /\ bmarks' = <<>>
                /\ cfg_verse_file' = settings_save(settings_sel)
                /\ view' = "ViewSettings"
        /\ UNCHANGED <<search_buf, hits, bmfile, return_view, running, api_input_active>>

\* on_settings, OK in the Font Size section on a font other than the
\* current one: the verse shown is read and wrapped again, the choice saved
on_settings_font ==
    \E r \in {read_verse_text(ActiveFile, vfile, fpos, index, verse_count,
                               U16(cur_verse), LINE_BUF_LEN)} :
        /\ fpos' = IF cur_verse >= 0 THEN r.fpos ELSE fpos
        /\ vfile_io' = IF cur_verse >= 0 THEN r.io ELSE vfile_io
        /\ cfg_verse_file' = settings_save(vfile_sel)
        /\ UNCHANGED <<vfile_sel, vfile, index, verse_count, search_buf, hits,
                       bmVars, uiVars, callVars>>

\* on_settings; settings_sec and settings_sel are the cursor
on_settings(ev) ==
    /\ Dispatch("ViewSettings")
    /\ IF ~ShortOrRepeat(ev) THEN Ignore
       ELSE IF ev.key = "Back" THEN GoView("ViewMainMenu")
       ELSE IF ev.key # "Ok" THEN Ignore
       ELSE \E settings_sec \in 0..1 :
               IF settings_sec = 0
               THEN \E settings_sel \in 0..(Len(corpus) - 1) :
                       IF settings_sel = vfile_sel THEN Ignore
                       ELSE \E open_ok \in BOOLEAN : on_settings_switch(settings_sel, open_ok)
               ELSE \E font_changes \in BOOLEAN :
                       IF font_changes THEN on_settings_font ELSE Ignore

\* the About view: scrolls, Back leaves
on_about(ev) ==
    /\ Dispatch("ViewAbout")
    /\ IF ShortOrRepeat(ev) /\ ev.key = "Back" THEN GoView("ViewMainMenu") ELSE Ignore

\* ViewError and ViewLoading: a short Back ends the event loop
on_error_leaves(ev, v) ==
    /\ Dispatch(v)
    /\ IF ev.type = "Short" /\ ev.key = "Back" THEN GoView("ViewMainMenu") ELSE Ignore
on_error(ev, v) ==
    /\ Dispatch(v)
    /\ IF ev.type = "Short" /\ ev.key = "Back"
       THEN /\ running' = FALSE
            /\ UNCHANGED <<fileVars, search_buf, hits, bmVars, view, return_view,
                           cur_verse, api_input_active, cfg_verse_file>>
       ELSE Ignore

API_MENU_ITEMS == 7

\* on_api_menu, OK on the row api_menu_sel; api_ok is the outcome of api_fetch
on_api_menu_ok(api_menu_sel) ==
    CASE api_menu_sel = 0 ->
            /\ search_buf' = <<>>
            /\ api_input_active' = TRUE
            /\ view' = "ViewSearchInput"
            /\ UNCHANGED <<fileVars, hits, bmVars, return_view, running,
                           cur_verse, cfg_verse_file>>
      [] api_menu_sel \in 1..3 ->
            \E api_ok \in BOOLEAN :
               SaveAndGoView(IF api_ok THEN "ViewApiResult" ELSE "ViewApiError")
      [] api_menu_sel = 4 -> GoView("ViewApiTrans")
      [] api_menu_sel = 5 -> GoView("ViewApiStatus")
      [] api_menu_sel = 6 -> GoView("ViewMainMenu")

on_api_menu(ev) ==
    /\ Dispatch("ViewApiMenu")
    /\ IF ~ShortOrRepeat(ev) THEN Ignore
       ELSE IF ev.key = "Back" THEN SaveAndGoView("ViewMainMenu")
       ELSE IF ev.key = "Ok"
       THEN \E api_menu_sel \in 0..(API_MENU_ITEMS - 1) : on_api_menu_ok(api_menu_sel)
       ELSE Ignore

on_api_result(ev) ==
    /\ Dispatch("ViewApiResult")
    /\ IF ShortOrRepeat(ev) /\ ev.key = "Back" THEN GoView("ViewApiMenu") ELSE Ignore

on_api_trans(ev) ==
    /\ Dispatch("ViewApiTrans")
    /\ IF ShortOrRepeat(ev) /\ ev.key \in {"Ok", "Back"}
       THEN SaveAndGoView("ViewApiMenu")
       ELSE Ignore

on_api_status(ev) ==
    /\ Dispatch("ViewApiStatus")
    /\ IF ev.type = "Short" /\ ev.key \in {"Ok", "Back"} THEN GoView("ViewApiMenu") ELSE Ignore

on_api_error(ev) ==
    /\ Dispatch("ViewApiError")
    /\ IF ev.type = "Short" /\ ev.key = "Back" THEN GoView("ViewApiMenu") ELSE Ignore

\* the event loop has ended: the handle is closed and freed
Cleanup ==
    /\ pc = "loop"
    /\ ~running
    /\ pc' = "done"
    /\ vfile' = FALSE
    /\ fpos' = 0
    /\ handles' = (IF vfile THEN handles - 1 ELSE handles)
    /\ handles_peak' = handles
    /\ UNCHANGED <<corpus, vfile_sel, index, verse_count, search_buf, hits, vfile_io,
                   pass_view, bmVars, uiVars, cfg_verse_file, setVars, wrapVars, dirVars, navVars, runVars>>

\* ViewApiLoading is set and replaced inside api_fetch, so the event loop
\* never dispatches on it
Next ==
    \/ \E open_ok \in BOOLEAN : Startup(open_ok)
    \/ \E ev \in InputEvents : on_main_menu(ev)
    \/ \E ev \in InputEvents : on_browse(ev)
    \/ \E ev \in InputEvents : on_verse_read(ev)
    \/ \E ev \in InputEvents : on_search_input(ev)
    \/ \E ev \in InputEvents : on_search_results(ev)
    \/ \E ev \in InputEvents, is_random \in BOOLEAN : on_random_daily(ev, is_random)
    \/ \E ev \in InputEvents : on_bookmarks(ev)
    \/ \E ev \in InputEvents : on_settings(ev)
    \/ \E ev \in InputEvents : on_about(ev)
    \/ \E ev \in InputEvents, v \in {"ViewError", "ViewLoading"} : on_error(ev, v)
    \/ \E ev \in InputEvents : on_api_menu(ev)
    \/ \E ev \in InputEvents : on_api_result(ev)
    \/ \E ev \in InputEvents : on_api_trans(ev)
    \/ \E ev \in InputEvents : on_api_status(ev)
    \/ \E ev \in InputEvents : on_api_error(ev)
    \/ Cleanup

Spec == Init /\ [][Next]_vars

(***************************************************************************)
(* The operations at the capacities: the startup load of a card holding    *)
(* the large files, then searches, bookmark toggles and corpus switches in *)
(* any order while the application shows no error                          *)
(***************************************************************************)
CapDisks ==
    { <<(<<LargeFile, TwoRecFile>>), BmLargeFile>>,
      <<(<<LargeFile>>), NoFile>> }

\* the queries searched for: none, "a" (most verses), "B" (every 7th verse)
CapQueries == { <<>>, <<97>>, <<66>> }

\* the verses toggled: the first and the last
CapIds == { v \in 0..(verse_count - 1) : v = 0 \/ v = verse_count - 1 }

CapInit ==
    /\ \E d \in CapDisks :
          /\ corpus = d[1]
          /\ bmfile = d[2]
    /\ cfg_verse_file = -1
    /\ vfile_sel = 0
    /\ vfile = FALSE
    /\ fpos = 0
    /\ index = <<>>
    /\ verse_count = 0
    /\ search_buf = <<>>
    /\ hits = <<>>
    /\ vfile_io = FALSE
    /\ bmarks = <<>>
    /\ view = "ViewLoading"
    /\ return_view = "ViewMainMenu"
    /\ running = TRUE
    /\ cur_verse = -1
    /\ api_input_active = FALSE
    /\ SetIdle
    /\ pc = "start"

\* the event loop runs and shows neither the error nor the loading view
CapReady == pc # "start" /\ running /\ view \notin {"ViewError", "ViewLoading"}

\* do_search on the query q
CapSearch(q) == CapReady /\ DoSearchCall(q)

\* toggle_bmark on verse vi
CapToggle(vi) == CapReady /\ ToggleBmarkCall(vi, TRUE)

\* the switch to the file in slot sel, as on_settings runs it
CapSwitch(sel, open_ok) ==
    /\ CapReady
    /\ sel # vfile_sel
    /\ on_settings_switch(sel, open_ok)
    /\ pc' = "switch_verse_file"
    /\ UNCHANGED <<corpus, setVars, wrapVars, dirVars, navVars, runVars>>

CapNext ==
    \/ \E open_ok \in BOOLEAN : Startup(open_ok)
    \/ \E q \in CapQueries : CapSearch(q)
    \/ \E vi \in CapIds : CapToggle(vi)
    \/ \E sel \in 0..(Len(corpus) - 1), open_ok \in BOOLEAN : CapSwitch(sel, open_ok)

SpecCap == CapInit /\ [][CapNext]_vars

(***************************************************************************)
(* Settings: settings.txt, one "key=value" line per setting                *)
(***************************************************************************)
CH_EQ == 61
FONT_COUNT == 5
API_TRANS_COUNT == 9
BIBLE_BOOKS_COUNT == 66
SETTINGS_LINE_LEN == 96

\* the keys, as the bytes of their names
KEY_VERSE_FILE == <<118, 101, 114, 115, 101, 95, 102, 105, 108, 101>>   \* "verse_file"
KEY_FONT_SIZE == <<102, 111, 110, 116, 95, 115, 105, 122, 101>>   \* "font_size"
KEY_API_TRANS == <<97, 112, 105, 95, 116, 114, 97, 110, 115>>   \* "api_trans"
KEY_API_BOOK == <<97, 112, 105, 95, 98, 111, 111, 107>>   \* "api_book"
KEY_API_CHAPTER == <<97, 112, 105, 95, 99, 104, 97, 112, 116, 101, 114>>   \* "api_chapter"
KEY_API_VERSE == <<97, 112, 105, 95, 118, 101, 114, 115, 101>>   \* "api_verse"
KEY_DAILY_IDX == <<100, 97, 105, 108, 121, 95, 105, 100, 120>>   \* "daily_idx"
KEY_DAILY_DAY == <<100, 97, 105, 108, 121, 95, 100, 97, 121>>   \* "daily_day"

\* API_TRANSLATIONS[i].code: web, kjv, asv, bbe, darby, dra, ylt, webbe, oeb-us
API_TRANSLATIONS ==
    << <<119, 101, 98>>,
       <<107, 106, 118>>,
       <<97, 115, 118>>,
       <<98, 98, 101>>,
       <<100, 97, 114, 98, 121>>,
       <<100, 114, 97>>,
       <<121, 108, 116>>,
       <<119, 101, 98, 98, 101>>,
       <<111, 101, 98, 45, 117, 115>> >>

fname(sel) == VFILE_NAMES[sel + 1]

\* the decimal digits of n, as printf("%d") writes them
itoa(n) == IF n < 0 THEN <<45>> \o utoa(0 - n) ELSE utoa(n)

\* strtoul(s, NULL, 10): white space, an optional '+', the digits up to the
\* first other character (values below 2^31; a '-' negates modulo 2^32,
\* written here as the negative number)
strtoul(s) == atoi(s)

\* the settings held in App
Settings ==
    [vfile_sel |-> vfile_sel, font_choice |-> font_choice,
     api_trans_sel |-> api_trans_sel, api_book_sel |-> api_book_sel,
     api_chapter_sel |-> api_chapter_sel, api_verse_sel |-> api_verse_sel,
     daily_verse_idx |-> daily_verse_idx, daily_verse_day |-> daily_verse_day]

\* settings_line with the '\n' left out of the format
settings_line_nonl(key, val) == key \o <<CH_EQ>> \o val

\* one "key=value\n" line, as snprintf and storage_file_write put it out
settings_line(key, val) == key \o <<CH_EQ>> \o val \o <<CH_NL>>

\* settings_save: the content written over settings.txt for the settings s
settings_text(s) ==
    settings_line(KEY_VERSE_FILE, fname(s.vfile_sel))
    \o settings_line(KEY_FONT_SIZE, itoa(s.font_choice))
    \o settings_line(KEY_API_TRANS, API_TRANSLATIONS[s.api_trans_sel + 1])
    \o settings_line(KEY_API_BOOK, utoa(s.api_book_sel))
    \o settings_line(KEY_API_CHAPTER, utoa(s.api_chapter_sel))
    \o settings_line(KEY_API_VERSE, utoa(s.api_verse_sel))
    \o settings_line(KEY_DAILY_IDX, utoa(s.daily_verse_idx))
    \o settings_line(KEY_DAILY_DAY, utoa(s.daily_verse_day))

\* settings_load, the inner loop: one byte into the line buffer
settings_load_byte(f, s) ==
    IF ~(Len(s.line) < SETTINGS_LINE_LEN - 1) THEN [s EXCEPT !.done = TRUE]
    ELSE IF s.pos >= Len(f) THEN [s EXCEPT !.eof = TRUE, !.done = TRUE]
    ELSE LET ch == f[s.pos + 1] IN
         IF ch = CH_CR THEN [s EXCEPT !.pos = @ + 1]
         ELSE IF ch = CH_NL THEN [s EXCEPT !.pos = @ + 1, !.done = TRUE]
         ELSE [s EXCEPT !.pos = @ + 1, !.line = Append(@, ch)]

\* the first slot i below n whose entry in names equals val, or -1
first_match_none(names, n, val) == -1
first_match(names, n, val) ==
    IF \E i \in 1..n : names[i] = val
    THEN (CHOOSE i \in 1..n : names[i] = val /\ \A j \in 1..(i - 1) : names[j] # val) - 1
    ELSE -1

\* settings_load, one line applied to the settings s; names are the file
\* names of the discovered files (App.vfiles[i].path after its last '/')
settings_load_line(s, line, names) ==
    LET eq == strchr(line, CH_EQ)
        key == SubSeq(line, 1, eq)
        val == SubSeq(line, eq + 2, Len(line))
        v == atoi(val)
    IN  IF Len(line) = 0 \/ eq < 0 THEN s
        ELSE IF key = KEY_VERSE_FILE
        THEN LET i == first_match(names, Len(names), val)
             IN  IF i >= 0 THEN [s EXCEPT !.vfile_sel = i] ELSE s
        ELSE IF key = KEY_FONT_SIZE
        THEN IF v >= 0 /\ v < FONT_COUNT THEN [s EXCEPT !.font_choice = v] ELSE s
        ELSE IF key = KEY_API_TRANS
        THEN LET i == first_match(API_TRANSLATIONS, API_TRANS_COUNT, val)
             IN  IF i >= 0 THEN [s EXCEPT !.api_trans_sel = i] ELSE s
        ELSE IF key = KEY_API_BOOK
        THEN IF v >= 0 /\ v < BIBLE_BOOKS_COUNT THEN [s EXCEPT !.api_book_sel = v] ELSE s
        ELSE IF key = KEY_API_CHAPTER
        THEN IF v >= 1 /\ v <= 150 THEN [s EXCEPT !.api_chapter_sel = v] ELSE s
        ELSE IF key = KEY_API_VERSE
        THEN IF v >= 1 /\ v <= 176 THEN [s EXCEPT !.api_verse_sel = v] ELSE s
        ELSE IF key = KEY_DAILY_IDX
        THEN IF v >= 0 /\ v < MAX_VERSES THEN [s EXCEPT !.daily_verse_idx = v] ELSE s
        ELSE IF key = KEY_DAILY_DAY
        THEN [s EXCEPT !.daily_verse_day = strtoul(val)]
        ELSE s

\* settings_load, one pass of the outer loop: a line is read and applied;
\* st = [s, pos, names, done]
settings_load_pass(f, st) ==
    LET r == Iterate(settings_load_byte, f, Len(f) + 1 - st.pos,
                     [line |-> <<>>, pos |-> st.pos, eof |-> FALSE, done |-> FALSE])
    IN  [st EXCEPT !.s = settings_load_line(st.s, r.line, st.names),
                   !.pos = r.pos, !.done = r.eof]

\* settings_load: the settings after settings.txt was applied to s
settings_load_text(s, file, names) ==
    IF ~file.exists THEN s
    ELSE Iterate(settings_load_pass, file.data, Len(file.data) + 1,
                 [s |-> s, pos |-> 0, names |-> names, done |-> FALSE]).s

(***************************************************************************)
(* settings_save and settings_load on their own: a running application     *)
(* saves its settings, and a new run (construction, discovery of the same  *)
(* files, settings_load) reads settings.txt into the zeroed App            *)
(***************************************************************************)
MaxCfgLines == 2     \* lines of a generated settings.txt

\* lines of a generated settings.txt that set a value
CfgValidLines ==
    { <<102, 111, 110, 116, 95, 115, 105, 122, 101, 61, 51>>,
      <<97, 112, 105, 95, 98, 111, 111, 107, 61, 55>>,
      <<97, 112, 105, 95, 99, 104, 97, 112, 116, 101, 114, 61, 52, 48>>,
      <<97, 112, 105, 95, 118, 101, 114, 115, 101, 61, 50, 50>>,
      <<97, 112, 105, 95, 116, 114, 97, 110, 115, 61, 107, 106, 118>>,
      <<118, 101, 114, 115, 101, 95, 102, 105, 108, 101, 61, 118, 101, 114, 115, 101, 115, 95, 101, 115, 118, 46, 116, 120, 116>>,
      <<100, 97, 105, 108, 121, 95, 105, 100, 120, 61, 53>>,
      <<100, 97, 105, 108, 121, 95, 100, 97, 121, 61, 57>> }
\*   font_size=3, api_book=7, api_chapter=40, api_verse=22, api_trans=kjv, verse_file=verses_esv.txt, daily_idx=5, daily_day=9

\* lines with a value out of range or not a number, with an unknown key,
\* without '='
CfgInvalidLines ==
    { <<102, 111, 110, 116, 95, 115, 105, 122, 101, 61, 57>>,
      <<102, 111, 110, 116, 95, 115, 105, 122, 101, 61, 120>>,
      <<97, 112, 105, 95, 98, 111, 111, 107, 61, 54, 54>>,
      <<97, 112, 105, 95, 99, 104, 97, 112, 116, 101, 114, 61, 48>>,
      <<97, 112, 105, 95, 99, 104, 97, 112, 116, 101, 114, 61, 49, 53, 49>>,
      <<97, 112, 105, 95, 118, 101, 114, 115, 101, 61, 49, 55, 55>>,
      <<97, 112, 105, 95, 116, 114, 97, 110, 115, 61, 120, 121, 122>>,
      <<118, 101, 114, 115, 101, 95, 102, 105, 108, 101, 61, 118, 101, 114, 115, 101, 115, 95, 102, 114, 46, 116, 120, 116>>,
      <<100, 97, 105, 108, 121, 95, 105, 100, 120, 61, 54, 48, 48>>,
      <<99, 111, 108, 111, 114, 61, 49>>,
      <<102, 111, 110, 116, 95, 115, 105, 122, 101>> }
\*   font_size=9, font_size=x, api_book=66, api_chapter=0, api_chapter=151, api_verse=177, api_trans=xyz, verse_file=verses_fr.txt, daily_idx=600, color=1, font_size

CfgFiles ==
    { [exists |-> TRUE, data |-> JoinLines(ls, nl)] :
        ls \in UNION { [1..n -> CfgValidLines \cup CfgInvalidLines] : n \in 0..MaxCfgLines },
        nl \in BOOLEAN }

\* the files discovered on the card of these runs: three, under the
\* canonical names
CfgCorpus == <<OneRecFile, TwoRecFile, NoRecFile>>

\* the settings memset leaves in a new App
ZeroSettings ==
    [vfile_sel |-> 0, font_choice |-> 0, api_trans_sel |-> 0, api_book_sel |-> 0,
     api_chapter_sel |-> 0, api_verse_sel |-> 0, daily_verse_idx |-> 0,
     daily_verse_day |-> 0]

\* settings a running application holds when it saves: every slot, the
\* first and the last font and translation, the picker before its first use
\* and on Genesis 1:1, Ruth 4:22, Psalms 119:176, Psalms 150:6 and
\* Revelation 22:21, the first and the last verse of the day, the day
\* counters 0 and 49 (the tick counter wraps after 49 days)
PickerSamples ==
    { <<0, 0, 0>>, <<0, 1, 1>>, <<7, 4, 22>>, <<18, 119, 176>>, <<18, 150, 6>>,
      <<65, 22, 21>> }

RunSettings ==
    { [vfile_sel |-> f, font_choice |-> fc, api_trans_sel |-> t, api_book_sel |-> p[1],
       api_chapter_sel |-> p[2], api_verse_sel |-> p[3], daily_verse_idx |-> d[1],
       daily_verse_day |-> d[2]] :
        f \in 0..(Len(CfgCorpus) - 1), fc \in {0, FONT_COUNT - 1},
        t \in {0, API_TRANS_COUNT - 1}, p \in PickerSamples,
        d \in { <<0, 0>>, <<MAX_VERSES - 1, 49>> } }

\* the variables hold the settings s
HoldSettings(s) ==
    /\ vfile_sel = s.vfile_sel
    /\ font_choice = s.font_choice
    /\ api_trans_sel = s.api_trans_sel
    /\ api_book_sel = s.api_book_sel
    /\ api_chapter_sel = s.api_chapter_sel
    /\ api_verse_sel = s.api_verse_sel
    /\ daily_verse_idx = s.daily_verse_idx
    /\ daily_verse_day = s.daily_verse_day

SettingsInit ==
    /\ corpus = CfgCorpus
    /\ \/ /\ pc = "start"
          /\ setfile \in CfgFiles \cup {NoFile}
          /\ HoldSettings(ZeroSettings)
       \/ /\ pc = "loop"
          /\ setfile = NoFile
          /\ \E s \in RunSettings : HoldSettings(s)
    /\ vfile = FALSE
    /\ fpos = 0
    /\ index = <<>>
    /\ verse_count = 0
    /\ search_buf = <<>>
    /\ hits = <<>>
    /\ vfile_io = FALSE
    /\ bmarks = <<>>
    /\ bmfile = NoFile
    /\ UiIdle
    /\ cfg_verse_file = -1
    /\ wrap_call = NoWrapCall
    /\ wrap = <<>>
    /\ EnvIdle

\* settings_load(app) into the settings s0, the files of vfiles discovered
SettingsLoaded(s0) ==
    \E s \in {settings_load_text(s0, setfile, vfiles)} :
        /\ vfile_sel' = s.vfile_sel
        /\ font_choice' = s.font_choice
        /\ api_trans_sel' = s.api_trans_sel
        /\ api_book_sel' = s.api_book_sel
        /\ api_chapter_sel' = s.api_chapter_sel
        /\ api_verse_sel' = s.api_verse_sel
        /\ daily_verse_idx' = s.daily_verse_idx
        /\ daily_verse_day' = s.daily_verse_day

\* settings_save(app); storage writes succeed in these runs
SettingsSaveCall ==
    /\ pc \in {"loop", "settings_load"}
    /\ setfile' = [exists |-> TRUE, data |-> settings_text(Settings)]
    /\ pc' = "settings_save"
    /\ UNCHANGED <<passVars, bmVars, uiVars, cfg_verse_file, font_choice, api_trans_sel,
                   api_book_sel, api_chapter_sel, api_verse_sel, daily_verse_idx,
                   daily_verse_day, wrapVars, dirVars, navVars, runVars>>

\* a run up to settings_load: the first run on the card, or the run after
\* the one that saved
SettingsLoadCall ==
    /\ pc \in {"start", "settings_save"}
    /\ SettingsLoaded(ZeroSettings)
    /\ pc' = "settings_load"
    /\ UNCHANGED <<corpus, vfile, fpos, index, verse_count, search_buf, hits, vfile_io,
                   callVars, bmVars, uiVars, cfg_verse_file, setfile, wrapVars, dirVars, navVars, runVars>>

SettingsNext ==
    \/ SettingsSaveCall
    \/ SettingsLoadCall

SpecSettings == SettingsInit /\ [][SettingsNext]_vars


(***************************************************************************)
(* The reference picker of the online lookup: book, chapter and verse      *)
(***************************************************************************)
\* BIBLE_BOOKS[b].chapters, Genesis to Revelation
BIBLE_BOOKS ==
    << 50, 40, 27, 36, 34, 24, 21, 4, 31, 24, 22,
       25, 29, 36, 10, 13, 10, 42, 150, 31, 12, 8,
       66, 52, 5, 48, 12, 14, 3, 9, 1, 4, 7,
       3, 3, 3, 2, 14, 4, 28, 16, 24, 21, 28,
       16, 16, 13, 6, 6, 4, 4, 5, 3, 6, 4,
       3, 1, 13, 5, 5, 3, 5, 1, 1, 1, 22 >>

\* VERSE_COUNTS: the verses of every chapter of every book, one row a book
VERSE_COUNTS ==
    << 31, 25, 24, 26, 32, 22, 24, 22, 29, 32, 32, 20, 18, 24, 21, 16, 27, 33, 38, 18, 34, 24, 20, 67, 34, 35, 46, 22, 35, 43, 55, 32, 20, 31, 29, 43, 36, 30, 23, 23, 57, 38, 34, 34, 28, 34, 31, 22, 33, 26,
       22, 25, 22, 31, 23, 30, 25, 32, 35, 29, 10, 51, 22, 31, 27, 36, 16, 27, 25, 26, 36, 31, 33, 18, 40, 37, 21, 43, 46, 38, 18, 35, 23, 35, 35, 38, 29, 31, 43, 38,
       17, 16, 17, 35, 19, 30, 38, 36, 24, 20, 47, 8, 59, 57, 33, 34, 16, 30, 24, 16, 15, 49, 52, 45, 23, 26, 20,
       54, 34, 51, 49, 31, 27, 89, 26, 23, 36, 35, 16, 33, 45, 41, 50, 13, 32, 22, 29, 35, 41, 30, 25, 18, 65, 23, 31, 40, 16, 54, 42, 56, 29, 34, 13,
       46, 37, 29, 49, 33, 25, 26, 20, 29, 22, 32, 32, 18, 29, 23, 22, 20, 22, 21, 20, 23, 30, 25, 22, 19, 19, 26, 68, 29, 20, 30, 52, 29, 12,
       18, 24, 17, 24, 15, 27, 26, 35, 27, 43, 23, 24, 33, 15, 63, 10, 18, 28, 51, 9, 45, 34, 16, 33,
       36, 23, 31, 24, 31, 40, 25, 35, 57, 18, 40, 15, 25, 20, 20, 31, 13, 31, 30, 48, 25,
       22, 23, 18, 22,
       28, 36, 21, 22, 12, 21, 17, 22, 27, 27, 15, 25, 23, 52, 35, 23, 58, 30, 24, 42, 15, 23, 29, 22, 44, 25, 12, 25, 11, 31, 13,
       27, 32, 39, 12, 25, 23, 29, 18, 13, 19, 27, 31, 39, 33, 37, 23, 29, 33, 43, 26, 22, 51, 39, 25,
       53, 46, 28, 34, 18, 38, 51, 66, 28, 29, 43, 33, 34, 31, 34, 34, 24, 46, 21, 43, 29, 53,
       18, 25, 27, 44, 27, 33, 20, 29, 37, 36, 21, 21, 25, 29, 38, 20, 41, 37, 37, 21, 26, 20, 37, 20, 30,
       54, 55, 24, 43, 26, 81, 40, 40, 44, 14, 47, 40, 14, 17, 29, 43, 27, 17, 19, 8, 30, 19, 32, 31, 31, 32, 34, 21, 30,
       17, 18, 17, 22, 14, 42, 22, 18, 31, 19, 23, 16, 22, 15, 19, 14, 19, 34, 11, 37, 20, 12, 21, 27, 28, 23, 9, 27, 36, 27, 21, 33, 25, 33, 27, 23,
       11, 70, 13, 24, 17, 22, 28, 36, 15, 44,
       11, 20, 32, 23, 19, 19, 73, 18, 38, 39, 36, 47, 31,
       22, 23, 15, 17, 14, 14, 10, 17, 32, 3,
       22, 13, 26, 21, 27, 30, 21, 22, 35, 22, 20, 25, 28, 22, 35, 22, 16, 21, 29, 29, 34, 30, 17, 25, 6, 14, 23, 28, 25, 31, 40, 22, 33, 37, 16, 33, 24, 41, 30, 24, 34, 17,
       6, 12, 8, 8, 12, 10, 17, 9, 20, 18, 7, 8, 6, 7, 5, 11, 15, 50, 14, 9, 13, 31, 6, 10, 22, 12, 14, 9, 11, 12, 24, 11, 22, 22, 28, 12, 40, 22, 13, 17, 13, 11, 5, 20, 28, 22, 35, 22, 46, 18, 16, 18, 12, 5, 12, 20, 12, 23, 11, 13, 12, 9, 9, 5, 8, 28, 22, 35, 45, 48, 43, 13, 31, 7, 10, 10, 9, 8, 18, 19, 2, 29, 18, 7, 8, 9, 4, 8, 5, 6, 5, 6, 8, 8, 3, 18, 3, 3, 21, 26, 9, 8, 24, 13, 10, 7, 12, 15, 21, 10, 20, 14, 9, 6, 7, 23, 11, 13, 176, 9, 8, 9, 4, 8, 5, 6, 5, 3, 8, 8, 3, 18, 3, 3, 21, 26, 9, 8, 24, 13, 10, 7, 12, 15, 21, 10, 20, 14, 9, 6,
       33, 22, 35, 27, 23, 35, 27, 36, 18, 32, 31, 28, 25, 35, 33, 33, 28, 24, 29, 30, 31, 29, 35, 34, 28, 28, 27, 28, 27, 33, 31,
       18, 26, 22, 16, 20, 12, 29, 17, 18, 20, 10, 14,
       17, 17, 11, 16, 16, 13, 13, 14,
       31, 22, 26, 6, 30, 13, 25, 22, 21, 34, 16, 6, 22, 32, 9, 14, 14, 7, 25, 6, 17, 25, 18, 23, 12, 21, 13, 29, 24, 33, 9, 20, 24, 17, 10, 22, 38, 22, 8, 31, 29, 25, 28, 28, 25, 13, 15, 22, 26, 11, 23, 15, 12, 17, 13, 12, 21, 14, 21, 22, 11, 12, 19, 12, 25, 24,
       19, 37, 25, 31, 31, 30, 34, 22, 26, 25, 23, 17, 27, 22, 21, 21, 27, 23, 15, 18, 14, 30, 40, 10, 38, 24, 22, 17, 32, 24, 40, 44, 26, 22, 19, 32, 21, 28, 18, 16, 18, 22, 13, 30, 5, 28, 7, 47, 39, 46, 64, 34,
       22, 22, 66, 22, 22,
       28, 10, 27, 17, 17, 14, 27, 18, 11, 22, 25, 28, 23, 23, 8, 63, 24, 32, 14, 49, 32, 31, 49, 27, 17, 21, 36, 26, 21, 26, 18, 32, 33, 31, 15, 38, 28, 23, 29, 49, 26, 20, 27, 31, 25, 24, 23, 35,
       21, 49, 30, 37, 31, 28, 28, 27, 27, 21, 45, 13,
       11, 23, 5, 19, 15, 11, 16, 14, 17, 15, 12, 14, 16, 9,
       20, 32, 21,
       15, 16, 15, 13, 27, 14, 17, 14, 15,
       21,
       17, 10, 10, 11,
       16, 13, 12, 13, 15, 16, 20,
       15, 13, 19,
       17, 20, 19,
       18, 15, 20,
       15, 23,
       21, 13, 10, 14, 11, 15, 14, 23, 17, 12, 17, 14, 9, 21,
       14, 17, 18, 6,
       25, 23, 17, 25, 48, 34, 29, 34, 38, 42, 30, 50, 58, 36, 39, 28, 27, 35, 30, 34, 46, 46, 39, 51, 46, 75, 66, 20,
       45, 28, 35, 41, 43, 56, 37, 38, 50, 52, 33, 44, 37, 72, 47, 20,
       80, 52, 38, 44, 39, 49, 50, 56, 62, 42, 54, 59, 35, 35, 32, 31, 37, 43, 48, 47, 38, 71, 56, 53,
       51, 25, 36, 54, 47, 71, 53, 59, 41, 42, 57, 50, 38, 31, 27, 33, 26, 40, 42, 31, 25,
       26, 47, 26, 37, 42, 15, 60, 40, 43, 48, 30, 25, 52, 28, 41, 40, 34, 28, 41, 38, 40, 30, 35, 27, 27, 32, 44, 31,
       32, 29, 31, 25, 21, 23, 25, 39, 33, 21, 36, 21, 14, 26, 33, 24,
       31, 16, 23, 21, 13, 20, 40, 13, 27, 33, 34, 31, 13, 40, 58, 24,
       24, 17, 18, 18, 21, 18, 16, 24, 15, 18, 33, 21, 14,
       24, 21, 29, 31, 26, 18,
       23, 22, 21, 28, 30, 14,
       30, 30, 21, 23,
       29, 23, 25, 18,
       10, 20, 13, 18, 28,
       12, 17, 18,
       20, 15, 16, 16, 25, 21,
       18, 26, 17, 22,
       16, 15, 15,
       25,
       14, 18, 19, 16, 14, 20, 28, 13, 28, 39, 40, 29, 25,
       27, 26, 18, 17, 20,
       25, 25, 22, 19, 14,
       21, 22, 18,
       10, 29, 24, 21, 21,
       13,
       14,
       25,
       20, 29, 22, 11, 14, 17, 17, 13, 21, 11, 19, 17, 18, 20, 8, 21, 18, 24, 21, 15, 27, 21 >>

\* a table that starts every book 50 entries after the one before
VERSE_COUNT_OFFSET_even == [b \in 1..BIBLE_BOOKS_COUNT |-> 50 * (b - 1)]
\* VERSE_COUNT_OFFSET[b]: the index in VERSE_COUNTS of the first chapter of book b
VERSE_COUNT_OFFSET ==
    << 0, 50, 90, 117, 153, 187, 211, 232, 236, 267, 291,
       313, 338, 367, 403, 413, 426, 436, 478, 628, 659, 671,
       679, 745, 797, 802, 850, 862, 876, 879, 888, 889, 893,
       900, 903, 906, 909, 911, 925, 929, 957, 973, 997, 1018,
       1046, 1062, 1078, 1091, 1097, 1103, 1107, 1111, 1116, 1119, 1125,
       1129, 1132, 1133, 1146, 1151, 1156, 1159, 1164, 1165, 1166, 1167 >>

\* the bytes a read past the end of VERSE_COUNTS is taken to give
OOB_BYTES == {0, 31, 255}

\* book_chapter_verses(book, chapter): the values the call can return, one
\* value for an index inside VERSE_COUNTS, any byte for an index outside
book_chapter_verses(book, chapter) ==
    LET i == VERSE_COUNT_OFFSET[book + 1] + chapter - 1
    IN  IF i >= 0 /\ i < Len(VERSE_COUNTS) THEN {VERSE_COUNTS[i + 1]} ELSE OOB_BYTES

chapters(book) == BIBLE_BOOKS[book + 1]

\* clamp_chapter left out: the chapter is kept whatever the new book
clamp_chapter_none(p) == p

\* the picker after a step: p = [book, chapter, verse], n the verse count read
clamp_verse(p, n) == IF p.verse > n THEN [p EXCEPT !.verse = n] ELSE p

clamp_chapter(p) ==
    IF p.chapter > chapters(p.book) THEN [p EXCEPT !.chapter = chapters(p.book)] ELSE p

\* on_api_menu, Left or Right on the Book row: the pickers the step can give
picker_book(p, key) ==
    LET b == IF key = "Left"
             THEN (IF p.book > 0 THEN p.book - 1 ELSE BIBLE_BOOKS_COUNT - 1)
             ELSE (IF p.book < BIBLE_BOOKS_COUNT - 1 THEN p.book + 1 ELSE 0)
        q == clamp_chapter([p EXCEPT !.book = b])
    IN  { clamp_verse(q, n) : n \in book_chapter_verses(q.book, q.chapter) }

\* Left or Right on the Chapter row
picker_chapter(p, key) ==
    LET c == IF key = "Left"
             THEN (IF p.chapter > 1 THEN p.chapter - 1 ELSE chapters(p.book))
             ELSE (IF p.chapter < chapters(p.book) THEN p.chapter + 1 ELSE 1)
        q == [p EXCEPT !.chapter = c]
    IN  { clamp_verse(q, n) : n \in book_chapter_verses(q.book, q.chapter) }

\* Left or Right on the Verse row
picker_verse(p, key) ==
    { [p EXCEPT !.verse = IF key = "Left"
                          THEN (IF p.verse > 1 THEN p.verse - 1 ELSE n)
                          ELSE (IF p.verse < n THEN p.verse + 1 ELSE 1)] :
        n \in book_chapter_verses(p.book, p.chapter) }

Picker == [book |-> api_book_sel, chapter |-> api_chapter_sel, verse |-> api_verse_sel]

\* the settings.txt of the picker runs: none, and files that put the picker
\* on 1 Samuel 40:31 (1 Samuel has 31 chapters), Revelation 150:176
\* (Revelation has 22) and Genesis 1:176 (Genesis 1 has 31 verses)
PickerFiles ==
    {NoFile} \cup
    { [exists |-> TRUE,
       data |-> settings_line(KEY_API_BOOK, utoa(p[1]))
                \o settings_line(KEY_API_CHAPTER, utoa(p[2]))
                \o settings_line(KEY_API_VERSE, utoa(p[3]))] :
        p \in { <<8, 40, 31>>, <<65, 150, 176>>, <<0, 1, 176>> } }

PickerInit ==
    /\ corpus = CfgCorpus
    /\ pc = "start"
    /\ setfile \in PickerFiles
    /\ HoldSettings(ZeroSettings)
    /\ vfile = FALSE
    /\ fpos = 0
    /\ index = <<>>
    /\ verse_count = 0
    /\ search_buf = <<>>
    /\ hits = <<>>
    /\ vfile_io = FALSE
    /\ bmarks = <<>>
    /\ bmfile = NoFile
    /\ UiIdle
    /\ cfg_verse_file = -1
    /\ wrap_call = NoWrapCall
    /\ wrap = <<>>
    /\ EnvIdle

\* on_main_menu, OK on "Online Lookup": the picker is put on 1-based values
\* at its first use and the online menu is shown
ApiMenuEnter ==
    /\ pc # "start"
    /\ view = "ViewMainMenu"
    /\ api_chapter_sel' = IF api_chapter_sel = 0 THEN 1 ELSE api_chapter_sel
    /\ api_verse_sel' = IF api_verse_sel = 0 THEN 1 ELSE api_verse_sel
    /\ view' = "ViewApiMenu"
    /\ pc' = "on_main_menu"
    /\ UNCHANGED <<passVars, bmVars, return_view, running, cur_verse, api_input_active,
                   cfg_verse_file, font_choice, api_trans_sel, api_book_sel,
                   daily_verse_idx, daily_verse_day, setfile, wrapVars, dirVars, navVars, runVars>>

\* on_api_menu, Left or Right with the cursor api_menu_sel on the Book (1),
\* Chapter (2) or Verse (3) row
PickerKey(api_menu_sel, key) ==
    /\ view = "ViewApiMenu"
    /\ \E p \in (CASE api_menu_sel = 1 -> picker_book(Picker, key)
                   [] api_menu_sel = 2 -> picker_chapter(Picker, key)
                   [] api_menu_sel = 3 -> picker_verse(Picker, key)) :
          /\ api_book_sel' = p.book
          /\ api_chapter_sel' = p.chapter
          /\ api_verse_sel' = p.verse
    /\ pc' = "on_api_menu"
    /\ UNCHANGED <<passVars, bmVars, uiVars, cfg_verse_file, font_choice, api_trans_sel,
                   daily_verse_idx, daily_verse_day, setfile, wrapVars, dirVars, navVars, runVars>>

PickerNext ==
    \/ SettingsLoadCall
    \/ ApiMenuEnter
    \/ \E api_menu_sel \in 1..3, key \in {"Left", "Right"} : PickerKey(api_menu_sel, key)

SpecPicker == PickerInit /\ [][PickerNext]_vars


(***************************************************************************)
(* word_wrap: the text cut into at most WRAP_MAX_LINES lines of at most    *)
(* cols characters, broken at the last space within reach                  *)
(***************************************************************************)
CH_SP == 32
WRAP_MAX_LINES == 8
WRAP_LINE_LEN == 32
FONT_CHARS == <<22, 30, 24, 20, 13>>
READ_ERROR == <<40, 114, 101, 97, 100, 32, 101, 114, 114, 111, 114, 41>>   \* "(read error)"

\* the column width after the two clamps
word_wrap_cols(cols) ==
    IF cols < 1 THEN 1 ELSE IF cols > WRAP_LINE_LEN THEN WRAP_LINE_LEN ELSE cols

\* the loop condition, without and with the cap on the line count
word_wrap_more_nocap(text, s) == s.pos < Len(text)
word_wrap_more(text, s) == s.pos < Len(text) /\ Len(s.lines) < WRAP_MAX_LINES

\* brk: the scan back from text[pos + cols] for a space; cols when none
word_wrap_brk_first(text, pos, cols) ==
    LET sp == {b \in 1..cols : text[pos + b + 1] = CH_SP}
    IN  IF sp = {} THEN cols ELSE CHOOSE b \in sp : \A c \in sp : b <= c
word_wrap_brk(text, pos, cols) ==
    LET sp == {b \in 1..cols : text[pos + b + 1] = CH_SP}
    IN  IF sp = {} THEN cols ELSE CHOOSE b \in sp : \A c \in sp : c <= b

\* the position after a break at p: one space there is passed over
word_wrap_skip_none(text, p) == p
word_wrap_skip_always(text, p) == IF p < Len(text) THEN p + 1 ELSE p
word_wrap_skip(text, p) == IF p < Len(text) /\ text[p + 1] = CH_SP THEN p + 1 ELSE p

\* one pass of the loop; a = [text, cols]
word_wrap_line(a, s) ==
    IF ~word_wrap_more(a.text, s) THEN [s EXCEPT !.done = TRUE]
    ELSE IF Len(a.text) - s.pos <= a.cols
    THEN [pos |-> s.pos,
          lines |-> Append(s.lines, SubSeq(a.text, s.pos + 1, Len(a.text))),
          done |-> TRUE]
    ELSE LET brk == word_wrap_brk(a.text, s.pos, a.cols)
             p == s.pos + brk
         IN  [pos |-> word_wrap_skip(a.text, p),
              lines |-> Append(s.lines, SubSeq(a.text, s.pos + 1, p)),
              done |-> FALSE]

\* word_wrap(w, text, cols): the lines of w (w->count is their number); each
\* pass takes at least one character, so Len(text) + 1 passes end the loop
word_wrap(text, cols) ==
    Iterate(word_wrap_line, [text |-> text, cols |-> word_wrap_cols(cols)], Len(text) + 1,
            [pos |-> 0, lines |-> <<>>, done |-> FALSE]).lines

(***************************************************************************)
(* The verse view: open_verse and the font change of the settings view on  *)
(* a card whose verse file holds texts of every shape.  (The online result *)
(* is wrapped by the same word_wrap at the same widths into App.api_wrap.) *)
(***************************************************************************)
MaxWrapWord == 310    \* characters of the longest word of a verse text
WrapWordStep == 5     \* word lengths of the many-word texts are 1 .. WrapWordStep

\* a word of n letters; the words joined by single spaces (a word of no
\* letters gives a leading, a doubled or a trailing space)
WrapWord(n) == [i \in 1..n |-> 97]
RECURSIVE WrapWords(_)
WrapWords(ns) ==
    IF ns = <<>> THEN <<>>
    ELSE IF Len(ns) = 1 THEN WrapWord(ns[1])
    ELSE LET h == Len(ns) \div 2
         IN  WrapWords(SubSeq(ns, 1, h)) \o <<CH_SP>> \o WrapWords(SubSeq(ns, h + 1, Len(ns)))

\* the verse texts on the card: no text, one short word, a word of exactly
\* the narrowest width and one more, a word longer than eight lines of the
\* widest font, eight full lines of the widest font and one character more,
\* doubled, leading and trailing spaces, one-letter words, and texts of many
\* words that fill more than eight lines at some or at every font, and a word
\* longer than the widest line followed by two short words
WrapTexts ==
    << WrapWords(<<>>),
       WrapWords(<<3>>),
       WrapWords(<<FONT_CHARS[5]>>),
       WrapWords(<<FONT_CHARS[5] + 1>>),
       WrapWords(<<MaxWrapWord>>),
       WrapWords(<<WRAP_MAX_LINES * FONT_CHARS[2]>>),
       WrapWords(<<WRAP_MAX_LINES * FONT_CHARS[2] + 1>>),
       WrapWords(<<12, 0, 5>>),
       WrapWords(<<0, 20>>),
       WrapWords(<<FONT_CHARS[5], 0>>),
       WrapWords([i \in 1..40 |-> 1]),
       WrapWords(<<2, 3, 9, 3, 7, 3, 6, 3, 3, 5, 2, 3, 4, 8, 3, 4, 6, 3, 2, 7, 4, 5>>),
       WrapWords([i \in 1..30 |-> 1 + (i % WrapWordStep)]),
       WrapWords([i \in 1..66 |-> 1 + (i % WrapWordStep)]),
       WrapWords([i \in 1..12 |-> 2 * FONT_CHARS[5] + (i % WrapWordStep)]),
       WrapWords(<<FONT_CHARS[2] + 3, 4, 2>>) >>

\* the verse file: a record "r|b|<text>" for each text, and the record "r|b"
\* without a text field, which is indexed and does not parse
WrapFile ==
    JoinLines([i \in 1..Len(WrapTexts) |-> <<114, CH_PIPE, 98, CH_PIPE>> \o WrapTexts[i]]
                  \o << <<114, CH_PIPE, 98>> >>, TRUE)

\* the running application after the startup load of the card, at any font
\* settings.txt may have chosen
WrapInit ==
    /\ corpus = <<WrapFile>>
    /\ \E b \in {build_index(WrapFile)} :
          /\ index = b.index
          /\ verse_count = Len(b.index)
          /\ fpos = b.fpos
    /\ vfile_sel = 0
    /\ vfile = TRUE
    /\ search_buf = <<>>
    /\ hits = <<>>
    /\ vfile_io = TRUE
    /\ bmarks = <<>>
    /\ bmfile = NoFile
    /\ UiIdle
    /\ cfg_verse_file = -1
    /\ font_choice \in 0..(FONT_COUNT - 1)
    /\ api_trans_sel = 0
    /\ api_book_sel = 0
    /\ api_chapter_sel = 0
    /\ api_verse_sel = 0
    /\ daily_verse_idx = 0
    /\ daily_verse_day = 0
    /\ setfile = NoFile
    /\ wrap_call = NoWrapCall
    /\ wrap = <<>>
    /\ EnvIdle
    /\ pc = "loop"

\* open_verse from the main menu (Random) or from the random verse shown
\* (OK): the verse the generator picks is read and wrapped at the width of
\* the font; a record that does not parse shows "(read error)"
WrapOpenVerse(vi) ==
    /\ pc # "start"
    /\ view \in {"ViewMainMenu", "ViewRandomVerse"}
    /\ \E r \in {read_verse_text(ActiveFile, vfile, fpos, index, verse_count, vi, LINE_BUF_LEN)} :
          /\ fpos' = r.fpos
          /\ vfile_io' = r.io
          /\ wrap_call' = [text |-> IF r.ok THEN r.text ELSE READ_ERROR,
                           cols |-> FONT_CHARS[font_choice + 1]]
    /\ wrap' = word_wrap(wrap_call'.text, wrap_call'.cols)
    /\ cur_verse' = vi
    /\ return_view' = "ViewRandomVerse"
    /\ view' = "ViewRandomVerse"
    /\ pc' = "open_verse"
    /\ UNCHANGED <<corpus, vfile_sel, vfile, index, verse_count, search_buf, hits, bmVars,
                   running, api_input_active, cfg_verse_file, setVars, dirVars, navVars, runVars, callVars>>

\* on_main_menu, OK on Settings
WrapMenuSettings ==
    /\ pc # "start"
    /\ view = "ViewMainMenu"
    /\ view' = "ViewSettings"
    /\ pc' = "on_main_menu"
    /\ UNCHANGED <<passVars, bmVars, return_view, running, cur_verse, api_input_active,
                   cfg_verse_file, setVars, wrapVars, dirVars, navVars, runVars>>

\* Back in the random verse and in the settings view
WrapBack ==
    /\ pc # "start"
    /\ view \in {"ViewRandomVerse", "ViewSettings"}
    /\ view' = "ViewMainMenu"
    /\ pc' = "loop"
    /\ UNCHANGED <<passVars, bmVars, return_view, running, cur_verse, api_input_active,
                   cfg_verse_file, setVars, wrapVars, dirVars, navVars, runVars>>

\* on_settings, OK in the Font Size section on the font `chosen`: the verse
\* last opened is read and wrapped again at the new width, if it reads, and
\* the settings are saved
WrapFontOk(chosen) ==
    /\ pc # "start"
    /\ view = "ViewSettings"
    /\ chosen # font_choice
    /\ font_choice' = chosen
    /\ \E r \in {read_verse_text(ActiveFile, vfile, fpos, index, verse_count,
                                  U16(cur_verse), LINE_BUF_LEN)} :
          /\ fpos' = IF cur_verse >= 0 THEN r.fpos ELSE fpos
          /\ vfile_io' = IF cur_verse >= 0 THEN r.io ELSE vfile_io
          /\ wrap_call' = IF cur_verse >= 0 /\ r.ok
                          THEN [text |-> r.text, cols |-> FONT_CHARS[chosen + 1]]
                          ELSE wrap_call
    /\ wrap' = IF wrap_call' = wrap_call THEN wrap
               ELSE word_wrap(wrap_call'.text, wrap_call'.cols)
    /\ setfile' = [exists |-> TRUE,
                   data |-> settings_text([Settings EXCEPT !.font_choice = chosen])]
    /\ cfg_verse_file' = settings_save(vfile_sel)
    /\ pc' = "on_settings"
    /\ UNCHANGED <<corpus, vfile_sel, vfile, index, verse_count, search_buf, hits, bmVars,
                   uiVars, api_trans_sel, api_book_sel, api_chapter_sel, api_verse_sel,
                   daily_verse_idx, daily_verse_day, dirVars, navVars, runVars, callVars>>

WrapNext ==
    \/ \E vi \in 0..(verse_count - 1) : WrapOpenVerse(vi)
    \/ WrapMenuSettings
    \/ WrapBack
    \/ \E chosen \in 0..(FONT_COUNT - 1) : WrapFontOk(chosen)

SpecWrap == WrapInit /\ [][WrapNext]_vars


(***************************************************************************)
(* discover_verse_files: the canonical files that open, then the other     *)
(* verses_*.txt files of the directory scan, MAX_VFILES at most            *)
(***************************************************************************)
MAX_VFILES == 8
VERSES_PREFIX == <<118, 101, 114, 115, 101, 115, 95>>   \* "verses_"
TXT_SUFFIX == <<46, 116, 120, 116>>   \* ".txt"
MIN_FNAME_LEN == 11

\* storage_file_open(f, known[i].path, FSAM_READ, FSOM_OPEN_EXISTING) on the
\* directory d: a file of that name is there
probe_opens(d, name) == \E i \in 1..Len(d) : d[i].name = name /\ ~d[i].is_dir

\* the canonical files found, in the order of known[]
discover_known(d) ==
    LET opens(name) == probe_opens(d, name) IN SelectSeq(VFILE_NAMES, opens)

\* the tests of the scan on a directory entry: TRUE when the entry is passed over
discover_skips(e) ==
    \/ e.is_dir
    \/ SubSeq(e.name, 1, Min(Len(e.name), Len(VERSES_PREFIX))) # VERSES_PREFIX
    \/ Len(e.name) < MIN_FNAME_LEN
    \/ SubSeq(e.name, Len(e.name) - Len(TXT_SUFFIX) + 1, Len(e.name)) # TXT_SUFFIX
    \/ \E k \in 1..Len(VFILE_NAMES) : e.name = VFILE_NAMES[k]

\* one pass of the scan loop over the directory d; s = [vfiles, i, done],
\* without and with the test of the capacity
discover_entry_nocap(d, s) ==
    IF s.i > Len(d) THEN [s EXCEPT !.done = TRUE]
    ELSE IF discover_skips(d[s.i]) THEN [s EXCEPT !.i = s.i + 1]
    ELSE [s EXCEPT !.vfiles = Append(s.vfiles, d[s.i].name), !.i = s.i + 1]
discover_entry(d, s) ==
    IF s.i > Len(d) THEN [s EXCEPT !.done = TRUE]
    ELSE IF discover_skips(d[s.i]) THEN [s EXCEPT !.i = s.i + 1]
    ELSE IF Len(s.vfiles) >= MAX_VFILES THEN [s EXCEPT !.done = TRUE]
    ELSE [s EXCEPT !.vfiles = Append(s.vfiles, d[s.i].name), !.i = s.i + 1]

\* discover_verse_files(app): the file names of App.vfiles
discover_verse_files(d) ==
    Iterate(discover_entry, d, Len(d) + 1,
            [vfiles |-> discover_known(d), i |-> 1, done |-> FALSE]).vfiles

(***************************************************************************)
(* The startup on a card: bible_viewer_app from construction through       *)
(* discover_verse_files to the startup load (settings_load,                *)
(* open_verse_file, build_index, bmarks_load).  Every verse file holds the *)
(* record "a|b|a"; names are at most 63 characters, which the buffer of    *)
(* the scan holds.                                                         *)
(***************************************************************************)
MaxDirEntries == 2    \* entries of a generated directory

\* directory entries the generated directories are made of
DirPool ==
    {
       [name |-> <<118, 101, 114, 115, 101, 115, 95, 101, 110, 46, 116, 120, 116>>, is_dir |-> FALSE],   \* "verses_en.txt"
       [name |-> <<118, 101, 114, 115, 101, 115, 95, 101, 115, 118, 46, 116, 120, 116>>, is_dir |-> FALSE],   \* "verses_esv.txt"
       [name |-> <<118, 101, 114, 115, 101, 115, 95, 100, 101, 46, 116, 120, 116>>, is_dir |-> FALSE],   \* "verses_de.txt"
       [name |-> <<118, 101, 114, 115, 101, 115, 95, 102, 114, 46, 116, 120, 116>>, is_dir |-> FALSE],   \* "verses_fr.txt"
       [name |-> <<118, 101, 114, 115, 101, 115, 95, 46, 116, 120, 116>>, is_dir |-> FALSE],   \* "verses_.txt"
       [name |-> <<118, 101, 114, 115, 101, 115, 95, 120, 46, 116, 120>>, is_dir |-> FALSE],   \* "verses_x.tx"
       [name |-> <<118, 101, 114, 115, 101, 115, 46, 116, 120, 116>>, is_dir |-> FALSE],   \* "verses.txt"
       [name |-> <<118, 101, 114, 115, 101, 115, 95, 116, 120, 116>>, is_dir |-> FALSE],   \* "verses_txt"
       [name |-> <<110, 111, 116, 101, 115, 46, 116, 120, 116>>, is_dir |-> FALSE],   \* "notes.txt"
       [name |-> <<118, 101, 114, 115, 101, 115, 95, 105, 116, 46, 116, 120, 116>>, is_dir |-> TRUE],   \* "verses_it.txt" (a directory)
       [name |-> <<118, 101, 114, 115, 101, 115, 95, 101, 110, 46, 116, 120, 116>>, is_dir |-> TRUE],   \* "verses_en.txt" (a directory)
       [name |-> <<86, 101, 114, 115, 101, 115, 95, 110, 108, 46, 116, 120, 116>>, is_dir |-> FALSE]   \* "Verses_nl.txt"
    }

\* a directory of the custom files verses_a.txt, verses_b.txt, ... (n of
\* them), with the canonical files after the first k of them
CustomEntry(j) == [name |-> VERSES_PREFIX \o <<96 + j>> \o TXT_SUFFIX, is_dir |-> FALSE]
KnownEntries == [k \in 1..Len(VFILE_NAMES) |-> [name |-> VFILE_NAMES[k], is_dir |-> FALSE]]
FullDir(n, k, known) ==
    [j \in 1..k |-> CustomEntry(j)] \o known \o [j \in 1..(n - k) |-> CustomEntry(k + j)]

\* the directories: every short one without a name twice, and full ones
\* (8 and 9 custom files; 5 and 6 custom files around the three canonical ones)
DiscDirs ==
    { d \in UNION { [1..n -> DirPool] : n \in 0..MaxDirEntries } :
         \A i, j \in 1..Len(d) : i # j => d[i].name # d[j].name }
    \cup { FullDir(MAX_VFILES, 0, <<>>), FullDir(MAX_VFILES + 1, 0, <<>>),
           FullDir(MAX_VFILES - 3, 2, KnownEntries), FullDir(MAX_VFILES - 2, 2, KnownEntries),
           FullDir(MAX_VFILES + 1, 4, SubSeq(KnownEntries, 2, 2)) }

\* settings.txt on the card: none, or the one line verse_file=<name>
DiscSaved ==
    { VFILE_NAMES[1], VFILE_NAMES[2], CustomEntry(2).name, CustomEntry(9).name,
      <<>>, <<118, 101, 114, 115, 101, 115, 95, 102, 114, 46, 116, 120, 116>> }
DiscCfgFiles ==
    {NoFile} \cup { [exists |-> TRUE, data |-> settings_line(KEY_VERSE_FILE, n)] : n \in DiscSaved }

DiscInit ==
    /\ dir \in DiscDirs
    /\ setfile \in DiscCfgFiles
    /\ corpus = <<>>
    /\ vfiles = <<>>
    /\ HoldSettings(ZeroSettings)
    /\ vfile = FALSE
    /\ fpos = 0
    /\ index = <<>>
    /\ verse_count = 0
    /\ search_buf = <<>>
    /\ hits = <<>>
    /\ vfile_io = FALSE
    /\ pass_view = "none"
    /\ handles = 0
    /\ handles_peak = 0
    /\ browse_sel = 0
    /\ browse_scroll = 0
    /\ hits_sel = 0
    /\ bmarks_sel = 0
    /\ bmarks_rest = <<>>
    /\ open_call = NoOpenCall
    /\ nav_events = 0
    /\ tick_day = 0
    /\ bmarks = <<>>
    /\ bmfile = NoFile
    /\ view = "ViewLoading"
    /\ return_view = "ViewMainMenu"
    /\ running = TRUE
    /\ cur_verse = -1
    /\ api_input_active = FALSE
    /\ cfg_verse_file = -1
    /\ wrap_call = NoWrapCall
    /\ wrap = <<>>
    /\ pc = "start"

\* discover_verse_files(app): each probe that opens is closed before the next
DiscoverCall ==
    /\ pc = "start"
    /\ vfiles' = discover_verse_files(dir)
    /\ corpus' = [i \in 1..Len(vfiles') |-> OneRecFile]
    /\ handles_peak' = (IF discover_known(dir) # <<>> THEN 1 ELSE 0)
    /\ pc' = "discover_verse_files"
    /\ UNCHANGED <<vfile_sel, vfile, fpos, index, verse_count, search_buf, hits, vfile_io,
                   pass_view, handles, bmVars, uiVars, cfg_verse_file, setVars, wrapVars, dir,
                   navVars, runVars>>

\* the startup after discovery: the error view with no file, else
\* settings_load, open_verse_file, build_index and bmarks_load
DiscStartupLoad(open_ok) ==
    /\ pc = "discover_verse_files"
    /\ pc' = "loop"
    /\ IF Len(vfiles) = 0
       THEN /\ view' = "ViewError"
            /\ UNCHANGED <<fileVars, bmarks, font_choice, api_trans_sel, api_book_sel,
                           api_chapter_sel, api_verse_sel, daily_verse_idx, daily_verse_day>>
       ELSE /\ SettingsLoaded(Settings)
            /\ \E l \in {load_verse_file(vfile_sel', open_ok)} :
               \E h \in {open_verse_file(vfile, handles, open_ok)} :
                  /\ handles' = h.handles
                  /\ handles_peak' = h.peak
                  /\ pass_view' = (IF open_ok THEN view ELSE pass_view)
                  /\ vfile' = l.vfile
                  /\ fpos' = l.fpos
                  /\ index' = l.index
                  /\ verse_count' = l.verse_count
                  /\ vfile_io' = l.io
                  /\ bmarks' = IF l.ok THEN bmarks_load(bmfile, l.verse_count) ELSE bmarks
                  /\ view' = IF l.ok THEN "ViewMainMenu" ELSE "ViewError"
    /\ UNCHANGED <<corpus, search_buf, hits, bmfile, return_view, running, cur_verse,
                   api_input_active, cfg_verse_file, setfile, wrapVars, dirVars, navVars, runVars>>

DiscNext ==
    \/ DiscoverCall
    \/ \E open_ok \in BOOLEAN : DiscStartupLoad(open_ok)

SpecDiscover == DiscInit /\ [][DiscNext]_vars


(***************************************************************************)
(* The lists and their cursors: the event loop on the views that show a    *)
(* list or a verse (main menu, browse list, verse, search, bookmarks,      *)
(* random and daily verse, the Bible Version section of the settings),     *)
(* with browse_sel, browse_scroll, hits.sel, bmarks.sel, the slots of      *)
(* bmarks.idx past the count, the verse of the day and settings.txt        *)
(* followed (the file itself, not its shorthand cfg_verse_file).  Events   *)
(* are short presses and the long OK, a repeat being handled as the short  *)
(* press is; a run has up to MaxNavEvents events.  The views without a     *)
(* list are followed by Spec and SpecPicker.                               *)
(***************************************************************************)
VISIBLE_LINES == 5
MaxNavLines == 6     \* records of the larger verse file
MaxNavBm == 2        \* bookmarks a toggle adds up to
MaxNavDay == 1       \* the day counters are 0 .. MaxNavDay
MaxNavEvents == 7    \* input events of a run

\* the verse files: MaxNavLines records of which the first and the last hold
\* an 'a' ("a|b|a", "c|b|c"), one record "a|b|a", and a file without a record
NavLongFile ==
    JoinLines([i \in 1..MaxNavLines |->
                  IF i = 1 \/ i = MaxNavLines THEN <<97, CH_PIPE, 98, CH_PIPE, 97>>
                  ELSE <<99, CH_PIPE, 98, CH_PIPE, 99>>], TRUE)
NavCorpus == <<NavLongFile, OneRecFile, NoRecFile>>

\* settings.txt: none, or a verse of the day saved by an earlier run (verse
\* 0 or the last verse a file can hold, on day 0 or 1)
NavCfgFiles ==
    {NoFile} \cup
    { [exists |-> TRUE,
       data |-> settings_line(KEY_DAILY_IDX, utoa(i)) \o settings_line(KEY_DAILY_DAY, utoa(d))] :
        i \in {0, MAX_VERSES - 1}, d \in 0..MaxNavDay }

\* bookmarks.txt: none, or the first and the last verse of the larger file
NavBmFiles ==
    {NoFile, [exists |-> TRUE, data |-> bmarks_text(<<0, MaxNavLines - 1>>)]}

NavInit ==
    /\ corpus = NavCorpus
    /\ setfile \in NavCfgFiles
    /\ bmfile \in NavBmFiles
    /\ HoldSettings(ZeroSettings)
    /\ vfile = FALSE
    /\ fpos = 0
    /\ index = <<>>
    /\ verse_count = 0
    /\ search_buf = <<>>
    /\ hits = <<>>
    /\ vfile_io = FALSE
    /\ bmarks = <<>>
    /\ view = "ViewLoading"
    /\ return_view = "ViewMainMenu"
    /\ running = TRUE
    /\ cur_verse = -1
    /\ api_input_active = FALSE
    /\ cfg_verse_file = -1
    /\ wrap_call = NoWrapCall
    /\ wrap = <<>>
    /\ EnvIdle
    /\ pc = "start"

dayVars == <<daily_verse_idx, daily_verse_day, setfile>>

\* the startup load: settings_load, open_verse_file, build_index, bmarks_load
NavStartup(open_ok) ==
    /\ pc = "start"
    /\ pc' = "loop"
    /\ SettingsLoaded(Settings)
    /\ \E l \in {load_verse_file(vfile_sel', open_ok)} :
       \E h \in {open_verse_file(vfile, handles, open_ok)} :
          /\ handles' = h.handles
          /\ handles_peak' = Max(1, h.peak)
          /\ pass_view' = (IF open_ok THEN view ELSE pass_view)
          /\ vfile' = l.vfile
          /\ fpos' = l.fpos
          /\ index' = l.index
          /\ verse_count' = l.verse_count
          /\ vfile_io' = l.io
          /\ bmarks' = IF l.ok THEN bmarks_load(bmfile, l.verse_count) ELSE bmarks
          /\ view' = IF l.ok THEN "ViewMainMenu" ELSE "ViewError"
    /\ UNCHANGED <<corpus, search_buf, hits, bmfile, return_view, running, cur_verse,
                   api_input_active, cfg_verse_file, setfile, wrapVars, dirVars, navVars,
                   runVars>>

\* a day of the tick counter passes
NavTick ==
    /\ pc = "loop"
    /\ running
    /\ tick_day < MaxNavDay
    /\ tick_day' = tick_day + 1
    /\ UNCHANGED <<passVars, bmVars, uiVars, cfg_verse_file, setVars, wrapVars, dirVars,
                   navVars, nav_events, pc>>

\* the event loop hands an event to the handler of view v, in runs of up to
\* MaxNavEvents events
NavDispatch(v) ==
    /\ pc = "loop"
    /\ running
    /\ view = v
    /\ nav_events < MaxNavEvents
    /\ nav_events' = nav_events + 1
    /\ UNCHANGED <<corpus, pc, font_choice, api_trans_sel, api_book_sel, api_chapter_sel,
                   api_verse_sel, wrapVars, dirVars, tick_day>>

\* a key the handler does nothing for (or that scrolls the verse text)
NavIgnore == Ignore /\ UNCHANGED <<navVars, dayVars>>

\* app->view = v
NavGoView(v) == GoView(v) /\ UNCHANGED <<navVars, dayVars>>

\* open_verse(app, vi, ret) and the view v the handler leaves
NavOpenVerse(vi, ret, v) ==
    /\ open_verse(vi, ret, v, cfg_verse_file)
    /\ open_call' = [vi |-> vi, verse_count |-> verse_count]
    /\ UNCHANGED <<browse_sel, browse_scroll, hits_sel, bmarks_sel, bmarks_rest>>

\* toggle_bmark, the slots past the count: a removal moves the entries
\* after it down and leaves the last one in its slot; an addition writes
\* the slot at the count
toggle_rest(bm, rest, vi) ==
    IF is_bookmarked(bm, vi) THEN <<bm[Len(bm)]>> \o rest
    ELSE IF Len(bm) < MAX_BOOKMARKS /\ rest # <<>> THEN Tail(rest)
    ELSE rest

\* toggle_bmark(app, cur_verse) on the long OK; additions up to MaxNavBm
NavToggle ==
    /\ is_bookmarked(bmarks, U16(cur_verse)) \/ Len(bmarks) < MaxNavBm
    /\ toggle_bmark(U16(cur_verse))
    /\ bmarks_rest' = toggle_rest(bmarks, bmarks_rest, U16(cur_verse))
    /\ UNCHANGED <<browse_sel, browse_scroll, hits_sel, bmarks_sel, open_call, dayVars>>

\* the verse rng_next(&app->rng) % app->verse_count can give
RandomIds == 0..(verse_count - 1)

\* MenuDaily: a verse is picked anew on another day and when the stored
\* index is not a verse of the file (first without this second test)
daily_is_new_dayonly(today, day, idx, vcount) == today # day
daily_is_new(today, day, idx, vcount) == today # day \/ idx >= vcount

\* on_main_menu, MenuDaily; today is furi_get_tick() / (1000u * 60 * 60 * 24)
NavMenuDaily(today) ==
    IF daily_is_new(today, daily_verse_day, daily_verse_idx, verse_count)
    THEN \E vi \in RandomIds :
            /\ daily_verse_idx' = vi
            /\ daily_verse_day' = today
            /\ open_verse(vi, "ViewDailyVerse", "ViewDailyVerse", cfg_verse_file)
            /\ open_call' = [vi |-> vi, verse_count |-> verse_count]
            /\ setfile' = [exists |-> TRUE, data |-> settings_text(Settings')]
            /\ UNCHANGED <<browse_sel, browse_scroll, hits_sel, bmarks_sel, bmarks_rest>>
    ELSE /\ NavOpenVerse(daily_verse_idx, "ViewDailyVerse", "ViewDailyVerse")
         /\ UNCHANGED dayVars

NavMenuChoice == {"MenuBrowse", "MenuSearch", "MenuRandom", "MenuDaily", "MenuBookmarks",
                  "MenuSettings"}

nav_main_menu_ok(menu_sel) ==
    CASE menu_sel = "MenuBrowse" ->
            /\ GoView("ViewBrowseList")
            /\ browse_sel' = 0
            /\ browse_scroll' = 0
            /\ UNCHANGED <<hits_sel, bmarks_sel, bmarks_rest, open_call, dayVars>>
      [] menu_sel = "MenuSearch" ->
            /\ search_buf' = <<>>
            /\ view' = "ViewSearchInput"
            /\ UNCHANGED <<fileVars, hits, bmVars, return_view, running, cur_verse,
                           api_input_active, cfg_verse_file, navVars, dayVars>>
      [] menu_sel = "MenuRandom" ->
            /\ \E vi \in RandomIds : NavOpenVerse(vi, "ViewRandomVerse", "ViewRandomVerse")
            /\ UNCHANGED dayVars
      [] menu_sel = "MenuDaily" -> NavMenuDaily(tick_day)
      [] menu_sel = "MenuBookmarks" ->
            /\ GoView("ViewBookmarks")
            /\ bmarks_sel' = 0
            /\ UNCHANGED <<browse_sel, browse_scroll, hits_sel, bmarks_rest, open_call, dayVars>>
      [] menu_sel = "MenuSettings" -> NavGoView("ViewSettings")

nav_main_menu(ev) ==
    /\ NavDispatch("ViewMainMenu")
    /\ IF ~ShortOrRepeat(ev) THEN NavIgnore
       ELSE IF ev.key = "Back"
       THEN /\ running' = FALSE
            /\ UNCHANGED <<fileVars, search_buf, hits, bmVars, view, return_view,
                           cur_verse, api_input_active, cfg_verse_file, navVars, dayVars>>
       ELSE IF ev.key = "Ok" THEN \E menu_sel \in NavMenuChoice : nav_main_menu_ok(menu_sel)
       ELSE NavIgnore

\* browse_key with the page-down key not held at the last verse
browse_key_unclamped(key, sel, scroll, total) ==
    LET s == CASE key = "Up" -> IF sel > 0 THEN sel - 1 ELSE sel
               [] key = "Down" -> IF sel < total - 1 THEN sel + 1 ELSE sel
               [] key = "Left" -> IF sel > VISIBLE_LINES THEN sel - VISIBLE_LINES ELSE 0
               [] key = "Right" -> U16(sel + VISIBLE_LINES)
    IN  [sel |-> s,
         scroll |-> IF key \in {"Up", "Left"}
                    THEN (IF s < scroll THEN s ELSE scroll)
                    ELSE (IF s >= scroll + VISIBLE_LINES THEN U16(s - VISIBLE_LINES + 1)
                          ELSE scroll)]

\* on_browse, the cursor keys: [sel, scroll] after the key (uint16_t)
browse_key(key, sel, scroll, total) ==
    LET s == CASE key = "Up" -> IF sel > 0 THEN sel - 1 ELSE sel
               [] key = "Down" -> IF sel < total - 1 THEN sel + 1 ELSE sel
               [] key = "Left" -> IF sel > VISIBLE_LINES THEN sel - VISIBLE_LINES ELSE 0
               [] key = "Right" -> IF sel + VISIBLE_LINES < total THEN sel + VISIBLE_LINES
                                   ELSE U16(total - 1)
        moved == key \in {"Left", "Right"} \/ s # sel
    IN  [sel |-> s,
         scroll |-> IF ~moved THEN scroll
                    ELSE IF key \in {"Up", "Left"}
                    THEN (IF s < scroll THEN s ELSE scroll)
                    ELSE (IF s >= scroll + VISIBLE_LINES THEN U16(s - VISIBLE_LINES + 1)
                          ELSE scroll)]

nav_browse(ev) ==
    /\ NavDispatch("ViewBrowseList")
    /\ IF ~ShortOrRepeat(ev) THEN NavIgnore
       ELSE IF ev.key = "Ok" THEN
            /\ NavOpenVerse(browse_sel, "ViewBrowseList", "ViewVerseRead")
            /\ UNCHANGED dayVars
       ELSE IF ev.key = "Back" THEN NavGoView("ViewMainMenu")
       ELSE \E b \in {browse_key(ev.key, browse_sel, browse_scroll, verse_count)} :
               /\ browse_sel' = b.sel
               /\ browse_scroll' = b.scroll
               /\ Ignore
               /\ UNCHANGED <<hits_sel, bmarks_sel, bmarks_rest, open_call, dayVars>>

nav_verse_read(ev) ==
    /\ NavDispatch("ViewVerseRead")
    /\ IF ShortOrRepeat(ev)
       THEN IF ev.key = "Left" /\ cur_verse > 0
            THEN /\ NavOpenVerse(U16(cur_verse - 1), return_view, "ViewVerseRead")
                 /\ UNCHANGED dayVars
            ELSE IF ev.key = "Right" /\ U16(cur_verse + 1) < verse_count
            THEN /\ NavOpenVerse(U16(cur_verse + 1), return_view, "ViewVerseRead")
                 /\ UNCHANGED dayVars
            ELSE IF ev.key = "Back" THEN NavGoView(return_view)
            ELSE NavIgnore
       ELSE IF ev.key = "Ok" /\ cur_verse >= 0 THEN NavToggle
       ELSE NavIgnore

\* on_search_input with the keyboard cursor on the key kb ('a' or GO): the
\* long OK types the capital, the short OK types the key or searches, Back
\* erases a character or leaves
nav_search_input(ev) ==
    /\ NavDispatch("ViewSearchInput")
    /\ IF ev.type = "Long" /\ ev.key = "Ok"
       THEN \E kb \in {"a", "GO"} :
               IF kb = "a" THEN Typed(65) /\ UNCHANGED <<navVars, dayVars>> ELSE NavIgnore
       ELSE IF ~ShortOrRepeat(ev) THEN NavIgnore
       ELSE IF ev.key = "Ok"
       THEN \E kb \in {"a", "GO"} :
               IF kb = "GO"
               THEN \E r \in {do_search(ActiveFile, vfile, fpos, verse_count, search_buf)} :
                       /\ hits' = r.hits
                       /\ hits_sel' = 0
                       /\ fpos' = r.fpos
                       /\ vfile_io' = r.io
                       /\ view' = "ViewSearchResults"
                       /\ pass_view' = view
                       /\ UNCHANGED <<vfile_sel, vfile, index, verse_count, search_buf,
                                      bmVars, return_view, running, cur_verse,
                                      api_input_active, cfg_verse_file, handles,
                                      handles_peak, browse_sel, browse_scroll, bmarks_sel,
                                      bmarks_rest, open_call, dayVars>>
               ELSE Typed(97) /\ UNCHANGED <<navVars, dayVars>>
       ELSE IF ev.key = "Back"
       THEN IF Len(search_buf) > 0 THEN Erased /\ UNCHANGED <<navVars, dayVars>>
            ELSE NavGoView("ViewMainMenu")
       ELSE NavIgnore

\* the entry of a list at the cursor sel: list holds the entries below the
\* count, rest the written slots past it, and the slots after those are 0
slot_at(list, rest, sel) ==
    IF sel < Len(list) THEN list[sel + 1]
    ELSE IF sel < Len(list) + Len(rest) THEN rest[sel - Len(list) + 1]
    ELSE 0

nav_search_results(ev) ==
    /\ NavDispatch("ViewSearchResults")
    /\ IF ~ShortOrRepeat(ev) THEN NavIgnore
       ELSE IF ev.key = "Up" /\ hits_sel > 0
       THEN /\ hits_sel' = hits_sel - 1
            /\ Ignore
            /\ UNCHANGED <<browse_sel, browse_scroll, bmarks_sel, bmarks_rest, open_call, dayVars>>
       ELSE IF ev.key = "Down" /\ hits_sel < Len(hits) - 1
       THEN /\ hits_sel' = hits_sel + 1
            /\ Ignore
            /\ UNCHANGED <<browse_sel, browse_scroll, bmarks_sel, bmarks_rest, open_call, dayVars>>
       ELSE IF ev.key = "Ok" /\ Len(hits) > 0
       THEN /\ NavOpenVerse(slot_at(hits, <<>>, hits_sel), "ViewSearchResults", "ViewVerseRead")
            /\ UNCHANGED dayVars
       ELSE IF ev.key = "Back" THEN NavGoView("ViewSearchInput")
       ELSE NavIgnore

nav_random_daily(ev, is_random) ==
    /\ NavDispatch(IF is_random THEN "ViewRandomVerse" ELSE "ViewDailyVerse")
    /\ IF ShortOrRepeat(ev)
       THEN IF ev.key = "Ok" /\ is_random
            THEN /\ \E vi \in RandomIds :
                       NavOpenVerse(vi, "ViewRandomVerse", "ViewRandomVerse")
                 /\ UNCHANGED dayVars
            ELSE IF ev.key = "Back" THEN NavGoView("ViewMainMenu")
            ELSE NavIgnore
       ELSE IF ev.key = "Ok" /\ cur_verse >= 0 THEN NavToggle
       ELSE NavIgnore

nav_bookmarks(ev) ==
    /\ NavDispatch("ViewBookmarks")
    /\ IF ~ShortOrRepeat(ev) THEN NavIgnore
       ELSE IF ev.key = "Up" /\ bmarks_sel > 0
       THEN /\ bmarks_sel' = bmarks_sel - 1
            /\ Ignore
            /\ UNCHANGED <<browse_sel, browse_scroll, hits_sel, bmarks_rest, open_call, dayVars>>
       ELSE IF ev.key = "Down" /\ Len(bmarks) > 0 /\ bmarks_sel < Len(bmarks) - 1
       THEN /\ bmarks_sel' = bmarks_sel + 1
            /\ Ignore
            /\ UNCHANGED <<browse_sel, browse_scroll, hits_sel, bmarks_rest, open_call, dayVars>>
       ELSE IF ev.key = "Ok" /\ Len(bmarks) > 0
       THEN /\ NavOpenVerse(slot_at(bmarks, bmarks_rest, bmarks_sel),
                            "ViewBookmarks", "ViewVerseRead")
            /\ UNCHANGED dayVars
       ELSE IF ev.key = "Back" THEN NavGoView("ViewMainMenu")
       ELSE NavIgnore

\* on_settings after a switch that succeeded: the fields it resets, for
\* s = [cur_verse, browse_sel, browse_scroll, bmarks, bmarks_rest] (first
\* with the bookmarks kept)
switch_reset_keepbm(s) ==
    [s EXCEPT !.cur_verse = -1, !.browse_sel = 0, !.browse_scroll = 0]
switch_reset(s) ==
    [s EXCEPT !.cur_verse = -1, !.browse_sel = 0, !.browse_scroll = 0,
              !.bmarks = <<>>, !.bmarks_rest = s.bmarks \o s.bmarks_rest]

\* on_settings, OK in the Bible Version section with the cursor on another
\* file than the active one
nav_settings_switch(settings_sel, open_ok) ==
    \E l \in {load_verse_file(settings_sel, open_ok)} :
    \E h \in {open_verse_file(vfile, handles, open_ok)} :
    \E s \in {IF l.ok
              THEN switch_reset([cur_verse |-> cur_verse, browse_sel |-> browse_sel,
                                 browse_scroll |-> browse_scroll, bmarks |-> bmarks,
                                 bmarks_rest |-> bmarks_rest])
              ELSE [cur_verse |-> cur_verse, browse_sel |-> browse_sel,
                    browse_scroll |-> browse_scroll, bmarks |-> bmarks,
                    bmarks_rest |-> bmarks_rest]} :
        /\ handles' = h.handles
        /\ handles_peak' = h.peak
        /\ pass_view' = (IF open_ok THEN "ViewLoading" ELSE pass_view)
        /\ vfile_sel' = settings_sel
        /\ vfile' = l.vfile
        /\ fpos' = l.fpos
        /\ index' = l.index
        /\ verse_count' = l.verse_count
        /\ vfile_io' = l.io
        /\ cur_verse' = s.cur_verse
        /\ browse_sel' = s.browse_sel
        /\ browse_scroll' = s.browse_scroll
        /\ bmarks' = s.bmarks
        /\ bmarks_rest' = s.bmarks_rest
        /\ view' = IF l.ok THEN "ViewSettings" ELSE "ViewError"
        /\ UNCHANGED <<search_buf, hits, bmfile, return_view, running, api_input_active,
                       cfg_verse_file, hits_sel, bmarks_sel, open_call, daily_verse_idx,
                       daily_verse_day>>
        /\ setfile' = IF l.ok THEN [exists |-> TRUE, data |-> settings_text(Settings')]
                      ELSE setfile

nav_settings(ev) ==
    /\ NavDispatch("ViewSettings")
    /\ IF ~ShortOrRepeat(ev) THEN NavIgnore
       ELSE IF ev.key = "Back" THEN NavGoView("ViewMainMenu")
       ELSE IF ev.key # "Ok" THEN NavIgnore
       ELSE \E settings_sel \in 0..(Len(corpus) - 1) :
               IF settings_sel = vfile_sel THEN NavIgnore
               ELSE \E open_ok \in BOOLEAN : nav_settings_switch(settings_sel, open_ok)

nav_error(ev) ==
    /\ NavDispatch("ViewError")
    /\ IF ev.type = "Short" /\ ev.key = "Back"
       THEN /\ running' = FALSE
            /\ UNCHANGED <<fileVars, search_buf, hits, bmVars, view, return_view,
                           cur_verse, api_input_active, cfg_verse_file, navVars, dayVars>>
       ELSE NavIgnore

\* short presses of the six keys and the long OK
NavEvents ==
    { [type |-> "Short", key |-> k] : k \in InputKeys } \cup {[type |-> "Long", key |-> "Ok"]}

NavNext ==
    \/ \E open_ok \in BOOLEAN : NavStartup(open_ok)
    \/ NavTick
    \/ \E ev \in NavEvents : nav_main_menu(ev)
    \/ \E ev \in NavEvents : nav_browse(ev)
    \/ \E ev \in NavEvents : nav_verse_read(ev)
    \/ \E ev \in NavEvents : nav_search_input(ev)
    \/ \E ev \in NavEvents : nav_search_results(ev)
    \/ \E ev \in NavEvents, is_random \in BOOLEAN : nav_random_daily(ev, is_random)
    \/ \E ev \in NavEvents : nav_bookmarks(ev)
    \/ \E ev \in NavEvents : nav_settings(ev)
    \/ \E ev \in NavEvents : nav_error(ev)

SpecNav == NavInit /\ [][NavNext]_vars

(***************************************************************************)
(* The online menu and settings.txt: the picker, the translation and the   *)
(* file are followed from the startup through on_api_menu and              *)
(* on_api_trans, in runs of up to MaxApiKeys changes of the picker or the  *)
(* translation.  The keyboard of the row "Lookup Verse" and the transfer   *)
(* itself are not followed; the rows of the menu are taken at any cursor.  *)
(***************************************************************************)
MaxApiKeys == 2

\* settings.txt: none, or Ruth 4:22 in the King James Version
ApiCfgFiles ==
    {NoFile,
     [exists |-> TRUE,
      data |-> settings_text([ZeroSettings EXCEPT !.api_trans_sel = 1, !.api_book_sel = 7,
                                                  !.api_chapter_sel = 4,
                                                  !.api_verse_sel = 22])]}

ApiInit ==
    /\ corpus = CfgCorpus
    /\ pc = "start"
    /\ setfile \in ApiCfgFiles
    /\ HoldSettings(ZeroSettings)
    /\ vfile = FALSE
    /\ fpos = 0
    /\ index = <<>>
    /\ verse_count = 0
    /\ search_buf = <<>>
    /\ hits = <<>>
    /\ vfile_io = FALSE
    /\ bmarks = <<>>
    /\ bmfile = NoFile
    /\ UiIdle
    /\ cfg_verse_file = -1
    /\ wrap_call = NoWrapCall
    /\ wrap = <<>>
    /\ EnvIdle

\* what the handlers of the online menu leave alone
ApiKeep ==
    UNCHANGED <<passVars, bmVars, return_view, running, cur_verse, api_input_active,
                cfg_verse_file, font_choice, daily_verse_idx, daily_verse_day, wrapVars,
                dirVars, navVars, tick_day>>

\* settings_save(app) and app->view = v
ApiSaveAndGo(v) ==
    /\ setfile' = [exists |-> TRUE, data |-> settings_text(Settings)]
    /\ view' = v
    /\ UNCHANGED <<api_trans_sel, api_book_sel, api_chapter_sel, api_verse_sel, nav_events>>

\* app->view = v
ApiGo(v) ==
    /\ view' = v
    /\ UNCHANGED <<api_trans_sel, api_book_sel, api_chapter_sel, api_verse_sel, setfile,
                   nav_events>>

\* on_api_menu with the cursor on the row api_menu_sel; api_ok is the
\* outcome of api_fetch_quick
api_menu(ev, api_menu_sel, api_ok) ==
    /\ pc # "start"
    /\ view = "ViewApiMenu"
    /\ pc' = "on_api_menu"
    /\ ApiKeep
    /\ IF ~ShortOrRepeat(ev) THEN ApiGo(view)
       ELSE IF ev.key \in {"Left", "Right"} /\ api_menu_sel \in 1..3
       THEN /\ nav_events < MaxApiKeys
            /\ nav_events' = nav_events + 1
            /\ \E p \in (CASE api_menu_sel = 1 -> picker_book(Picker, ev.key)
                           [] api_menu_sel = 2 -> picker_chapter(Picker, ev.key)
                           [] api_menu_sel = 3 -> picker_verse(Picker, ev.key)) :
                  /\ api_book_sel' = p.book
                  /\ api_chapter_sel' = p.chapter
                  /\ api_verse_sel' = p.verse
            /\ UNCHANGED <<api_trans_sel, setfile, view>>
       ELSE IF ev.key = "Ok" /\ api_menu_sel \in 1..3
       THEN ApiSaveAndGo(IF api_ok THEN "ViewApiResult" ELSE "ViewApiError")
       ELSE IF ev.key = "Ok" /\ api_menu_sel = 4 THEN ApiGo("ViewApiTrans")
       ELSE IF ev.key = "Ok" /\ api_menu_sel = 5 THEN ApiGo("ViewApiStatus")
       ELSE IF ev.key = "Ok" /\ api_menu_sel = 6 THEN ApiGo("ViewMainMenu")
       ELSE IF ev.key = "Back" THEN ApiSaveAndGo("ViewMainMenu")
       ELSE ApiGo(view)

\* on_api_trans
api_trans(ev) ==
    /\ view = "ViewApiTrans"
    /\ pc' = "on_api_trans"
    /\ ApiKeep
    /\ IF ~ShortOrRepeat(ev) THEN ApiGo(view)
       ELSE IF ev.key \in {"Up", "Down"}
       THEN /\ nav_events < MaxApiKeys
            /\ nav_events' = nav_events + 1
            /\ api_trans_sel' =
                  IF ev.key = "Up" THEN (IF api_trans_sel > 0 THEN api_trans_sel - 1
                                         ELSE api_trans_sel)
                  ELSE (IF api_trans_sel < API_TRANS_COUNT - 1 THEN api_trans_sel + 1
                        ELSE api_trans_sel)
            /\ UNCHANGED <<api_book_sel, api_chapter_sel, api_verse_sel, setfile, view>>
       ELSE IF ev.key \in {"Ok", "Back"} THEN ApiSaveAndGo("ViewApiMenu")
       ELSE ApiGo(view)

\* on_api_result, on_api_error and on_api_status: Back (in the status view
\* OK as well) shows the menu again
api_back(ev) ==
    /\ view \in {"ViewApiResult", "ViewApiError", "ViewApiStatus"}
    /\ pc' = "on_api_result"
    /\ ApiKeep
    /\ IF \/ view = "ViewApiResult" /\ ShortOrRepeat(ev) /\ ev.key = "Back"
          \/ view = "ViewApiStatus" /\ ev.type = "Short" /\ ev.key \in {"Ok", "Back"}
          \/ view = "ViewApiError" /\ ev.type = "Short" /\ ev.key = "Back"
       THEN ApiGo("ViewApiMenu")
       ELSE ApiGo(view)

ApiEvents == { [type |-> "Short", key |-> k] : k \in InputKeys }

ApiNext ==
    \/ SettingsLoadCall /\ pc = "start"
    \/ ApiMenuEnter
    \/ \E ev \in ApiEvents, api_menu_sel \in 1..(API_MENU_ITEMS - 1), api_ok \in BOOLEAN :
          api_menu(ev, api_menu_sel, api_ok)
    \/ \E ev \in ApiEvents : api_trans(ev)
    \/ \E ev \in ApiEvents : api_back(ev)

SpecApiMenu == ApiInit /\ [][ApiNext]_vars


(***************************************************************************)
(* The physical lines of a file, read off its bytes                        *)
(***************************************************************************)
\* offsets of the first byte of a line: offset 0 and the byte after a '\n'
LineStarts(f) == { s \in 0..(Len(f) - 1) : s = 0 \/ f[s] = CH_NL }

\* number of the byte (1-based) that ends the line holding offset s: its '\n',
\* or one past the end of the file
LineEndOf(f, s) ==
    CHOOSE k \in (s + 1)..(Len(f) + 1) :
        /\ k = Len(f) + 1 \/ f[k] = CH_NL
        /\ \A j \in (s + 1)..(k - 1) : f[j] # CH_NL

\* the text from offset s to the end of its line, '\r' dropped
TextFrom(f, s) ==
    SelectSeq(SubSeq(f, s + 1, LineEndOf(f, s) - 1), LAMBDA c : c # CH_CR)

\* the texts of the lines of f, in file order
TextLines(f) ==
    LET starts == LineStarts(f)
        nth(k) == CHOOSE s \in starts : Cardinality({t \in starts : t < s}) = k - 1
    IN  [k \in 1..Cardinality(starts) |-> TextFrom(f, nth(k))]

\* the same, cut to what the line buffer holds
TruncFrom(f, s) ==
    LET t == TextFrom(f, s) IN SubSeq(t, 1, Min(Len(t), LINE_BUF_LEN - 1))

HasPipe(t) == \E i \in 1..Len(t) : t[i] = CH_PIPE

Offsets == { index[i].offset : i \in 1..Len(index) }

(***************************************************************************)
(* C1: after build_index the offsets of the index entries strictly         *)
(* increase with the verse id.                                             *)
(***************************************************************************)
C1_OffsetsIncrease ==
    /\ Len(index) = verse_count
    /\ \A i, j \in 1..verse_count : i < j => index[i].offset < index[j].offset

C1_Witness == pc = "build_index" /\ verse_count >= 3

(***************************************************************************)
(* C2: in every state reached by the startup load, searches, bookmark      *)
(* toggles and corpus switches, verse_count <= 600, hits.count <= 50 and   *)
(* bmarks.count <= 75; and the error view is shown only when no file was   *)
(* found, the file did not open or it gave no verse, never because a       *)
(* capacity was reached.                                                   *)
(***************************************************************************)
C2_CountsWithinCapacity ==
    /\ verse_count <= MAX_VERSES
    /\ Len(index) <= MAX_VERSES
    /\ Len(hits) <= MAX_SEARCH_RESULTS
    /\ Len(bmarks) <= MAX_BOOKMARKS
    /\ view = "ViewError" => (Len(corpus) = 0 \/ ~vfile \/ verse_count = 0)

\* all three capacities reached, by a file of more than 600 records, a query
\* more than 50 verses contain and a bookmarks.txt of more than 75 ids, with
\* a toggle asked for while the list is full
C2_Witness ==
    /\ pc = "toggle_bmark"
    /\ verse_count = MAX_VERSES
    /\ Len(hits) = MAX_SEARCH_RESULTS
    /\ Len(bmarks) = MAX_BOOKMARKS
    /\ ~is_bookmarked(bmarks, verse_count - 1)
    /\ view = "ViewMainMenu"

(***************************************************************************)
(* C3: build_index gives the ids 0,1,2,... in file order to exactly the    *)
(* non-blank lines that contain '|' (the first MAX_VERSES of them): entry  *)
(* i is the start of the i-th such line, and no other entry exists.        *)
(***************************************************************************)
C3_RecordLines(f) ==
    { s \in LineStarts(f) : LET t == TextFrom(f, s) IN Len(t) > 0 /\ HasPipe(t) }

C3_IdsExactlyRecordLines ==
    pc = "build_index" =>
        LET W == C3_RecordLines(ActiveFile) IN
        /\ verse_count = Min(MAX_VERSES, Cardinality(W))
        /\ \A i \in 1..verse_count :
              /\ index[i].offset \in W
              /\ Cardinality({ w \in W : w < index[i].offset }) = i - 1

(***************************************************************************)
(* C4: a non-blank line without '|' does not end the pass: the pass stops  *)
(* only at the end of the file or at MAX_VERSES entries, and every line it *)
(* has passed whose buffered text holds a '|' has an entry at its start.   *)
(***************************************************************************)
C4_MalformedLineSkipped ==
    pc = "build_index" =>
        /\ verse_count = MAX_VERSES \/ fpos = Len(ActiveFile)
        /\ \A s \in LineStarts(ActiveFile) :
              (s < fpos /\ HasPipe(TruncFrom(ActiveFile, s))) => s \in Offsets

\* a line without '|' was passed and a later line is indexed
C4_Witness ==
    /\ pc = "build_index"
    /\ \E s \in LineStarts(ActiveFile) :
          /\ Len(TextFrom(ActiveFile, s)) > 0
          /\ ~HasPipe(TextFrom(ActiveFile, s))
          /\ \E o \in Offsets : o > s

(***************************************************************************)
(* C5: every index entry's offset is the first byte of a physical line of  *)
(* the file, also for a file with a line longer than the line buffer.      *)
(***************************************************************************)
C5_OffsetsAreLineStarts ==
    pc = "build_index" => \A o \in Offsets : o \in LineStarts(ActiveFile)

(***************************************************************************)
(* C6: every hit of do_search names a verse whose record line, the line at *)
(* index[h].offset, contains the query case-insensitively.                 *)
(***************************************************************************)
C6_HitsContainQuery ==
    pc = "do_search" =>
        \A k \in 1..Len(hits) :
            /\ hits[k] < verse_count
            /\ icontains(TextFrom(ActiveFile, index[hits[k] + 1].offset), search_buf)

(***************************************************************************)
(* C7: after do_search the hit ids are strictly ascending and each is      *)
(* below verse_count.                                                      *)
(***************************************************************************)
C7_HitsAscendingValid ==
    pc = "do_search" =>
        /\ \A k \in 1..Len(hits) : hits[k] >= 0 /\ hits[k] < verse_count
        /\ \A k, l \in 1..Len(hits) : k < l => hits[k] < hits[l]

C7_Witness == pc = "do_search" /\ Len(hits) >= 2 /\ hits[Len(hits)] = verse_count - 1

(***************************************************************************)
(* C8: with a non-empty query do_search returns exactly the first          *)
(* min(MAX_SEARCH_RESULTS, n) of the n indexed verses whose raw line       *)
(* contains the query, in file order.                                      *)
(***************************************************************************)
C8_Matching ==
    { v \in 0..(verse_count - 1) :
        icontains(TextFrom(ActiveFile, index[v + 1].offset), search_buf) }

C8_AllMatchesReported ==
    (pc = "do_search" /\ Len(search_buf) > 0) =>
        /\ Len(hits) = Min(MAX_SEARCH_RESULTS, Cardinality(C8_Matching))
        /\ \A k \in 1..Len(hits) :
              /\ hits[k] \in C8_Matching
              /\ Cardinality({ m \in C8_Matching : m < hits[k] }) = k - 1

(***************************************************************************)
(* C9: with an empty query do_search leaves no hits and makes no seek and  *)
(* no read on the handle: its position stays where it was.                 *)
(***************************************************************************)
C9_EmptyQueryNoScan ==
    [][(pc' = "do_search" /\ search_buf' = <<>>) =>
            (hits' = <<>> /\ fpos' = fpos /\ vfile_io' = FALSE)]_vars

\* an empty search run when hits were held and the handle stood past byte 0
C9_Witness ==
    pc = "do_search" /\ search_buf = <<>> /\ hits = <<>> /\ fpos > 0 /\ ~vfile_io

(***************************************************************************)
(* C10: for every verse id x, toggle_bmark(x) twice leaves is_bookmarked(x)*)
(* as it was, for every bookmark list the program can hold.                *)
(***************************************************************************)
C10_ToggleTwiceRestores ==
    \A x \in 0..(verse_count - 1) :
        is_bookmarked(toggle_list(toggle_list(bmarks, x), x), x) = is_bookmarked(bmarks, x)

(***************************************************************************)
(* C11: in every reachable state every bookmark b in memory (position      *)
(* below bmarks.count) satisfies 0 <= b < verse_count, after the startup   *)
(* load, toggles and corpus switches that succeed or fail.                 *)
(***************************************************************************)
C11_BookmarksBelowVerseCount ==
    \A i \in 1..Len(bmarks) : bmarks[i] >= 0 /\ bmarks[i] < verse_count

(***************************************************************************)
(* C12: bmarks_load puts an entry of bookmarks.txt in the list only if the *)
(* unsigned decimal value written on its line is below verse_count; a line *)
(* whose value is verse_count or more is dropped (also a value above 65535 *)
(* and a line of more than 7 characters), and at most 75 entries load.     *)
(***************************************************************************)
\* the values written on the non-blank lines of f, in file order
C12_LineValues(f) ==
    LET written == SelectSeq(TextLines(f), LAMBDA t : Len(t) > 0)
    IN  [k \in 1..Len(written) |-> atoi_digits(written[k], 1, 0)]

C12_LoadDropsOutOfRange ==
    pc = "bmarks_load" =>
        LET kept == SelectSeq(C12_LineValues(bmfile.data), LAMBDA v : v < verse_count)
        IN  /\ Len(bmarks) <= MAX_BOOKMARKS
            /\ Len(bmarks) <= Len(kept)
            /\ bmarks = SubSeq(kept, 1, Len(bmarks))

(***************************************************************************)
(* C13: after every operation of the event loop that changes the bookmark  *)
(* list in memory (a toggle that adds, a toggle that removes, the clearing *)
(* on a corpus switch) bookmarks.txt holds exactly that list, one decimal  *)
(* id and '\n' per entry in list order (storage writes succeed).           *)
(***************************************************************************)
C13_ListChangePersisted ==
    [][(pc = "loop" /\ bmarks' # bmarks) =>
          bmfile' = [exists |-> TRUE,
                     data |-> JoinLines([i \in 1..Len(bmarks') |-> utoa(bmarks'[i])], TRUE)]]_vars

(***************************************************************************)
(* C14: settings_save followed by settings_load into a new (zeroed) App    *)
(* with the same discovered files reproduces every valid setting: the      *)
(* active slot, the font, the translation, the picker's book, chapter and  *)
(* verse, the verse of the day and its day counter.                        *)
(***************************************************************************)
C14_SaveLoadRoundTrip ==
    [][(pc = "settings_save" /\ pc' = "settings_load") => Settings' = Settings]_vars

C14_Witness ==
    /\ pc = "settings_load"
    /\ setfile = [exists |-> TRUE, data |-> settings_text(Settings)]
    /\ Settings = [vfile_sel |-> 2, font_choice |-> 4, api_trans_sel |-> 8,
                   api_book_sel |-> 18, api_chapter_sel |-> 150, api_verse_sel |-> 6,
                   daily_verse_idx |-> 599, daily_verse_day |-> 49]

(***************************************************************************)
(* C15: settings_load changes no setting for a line whose key is not one   *)
(* of the eight keys or whose value is invalid for its key (out of range   *)
(* or not a number); the valid lines before and after it are applied: the  *)
(* settings loaded are those loaded from the valid lines alone.            *)
(***************************************************************************)
\* a decimal number: digits only, at least one
C15_IsNumber(val) == Len(val) > 0 /\ \A i \in 1..Len(val) : isdigit(val[i])

C15_InRange(val, lo, hi) ==
    C15_IsNumber(val) /\ atoi_digits(val, 1, 0) >= lo /\ atoi_digits(val, 1, 0) <= hi

\* the line is "key=value" with one of the eight keys and a value valid for it
C15_ValidLine(line) ==
    LET eq == strchr(line, CH_EQ)
        key == SubSeq(line, 1, eq)
        val == SubSeq(line, eq + 2, Len(line))
    IN  /\ eq >= 0
        /\ \/ key = KEY_VERSE_FILE /\ \E i \in 1..Len(corpus) : VFILE_NAMES[i] = val
           \/ key = KEY_FONT_SIZE /\ C15_InRange(val, 0, FONT_COUNT - 1)
           \/ key = KEY_API_TRANS /\ \E i \in 1..API_TRANS_COUNT : API_TRANSLATIONS[i] = val
           \/ key = KEY_API_BOOK /\ C15_InRange(val, 0, BIBLE_BOOKS_COUNT - 1)
           \/ key = KEY_API_CHAPTER /\ C15_InRange(val, 1, 150)
           \/ key = KEY_API_VERSE /\ C15_InRange(val, 1, 176)
           \/ key = KEY_DAILY_IDX /\ C15_InRange(val, 0, MAX_VERSES - 1)
           \/ key = KEY_DAILY_DAY /\ C15_IsNumber(val)

C15_InvalidLinesIgnored ==
    pc = "settings_load" =>
        Settings = settings_load_text(ZeroSettings,
                       [exists |-> setfile.exists,
                        data |-> JoinLines(SelectSeq(TextLines(setfile.data), C15_ValidLine),
                                           TRUE)],
                       vfiles)

(***************************************************************************)
(* C16: in every reachable state the picker satisfies                      *)
(* 1 <= chapter <= chapters(book) and 1 <= verse <= verses(book, chapter): *)
(* in the initial state, after settings_load of any settings.txt and after *)
(* any steps of the picker.                                                *)
(***************************************************************************)
\* the number of verses of a chapter the book has
verses(book, chapter) == VERSE_COUNTS[VERSE_COUNT_OFFSET[book + 1] + chapter]

PickerInRange(p) ==
    /\ p.chapter >= 1
    /\ p.chapter <= chapters(p.book)
    /\ p.verse >= 1
    /\ p.verse <= verses(p.book, p.chapter)

C16_PickerInRange == PickerInRange(Picker)

(***************************************************************************)
(* C17: a step of the picker's book wraps at both ends (Left at book 0     *)
(* gives 65, Right at 65 gives 0, otherwise -1 / +1), then the chapter is  *)
(* min(chapter, chapters(new book)) and the verse is                       *)
(* min(verse, verses(new book, new chapter)).                              *)
(***************************************************************************)
C17_BookStepWrapsThenClamps ==
    [][\A key \in {"Left", "Right"} :
          PickerKey(1, key) =>
             /\ api_book_sel' = IF key = "Left"
                                THEN (IF api_book_sel = 0 THEN 65 ELSE api_book_sel - 1)
                                ELSE (IF api_book_sel = 65 THEN 0 ELSE api_book_sel + 1)
             /\ api_chapter_sel' = Min(api_chapter_sel, chapters(api_book_sel'))
             /\ api_verse_sel' = Min(api_verse_sel, verses(api_book_sel', api_chapter_sel'))]_vars

\* Ruth 4:22 reached on the card whose settings.txt held 1 Samuel 40:31
C17_Witness ==
    /\ pc = "on_api_menu"
    /\ Picker = [book |-> 7, chapter |-> 4, verse |-> 22]
    /\ setfile.exists
    /\ settings_load_text(ZeroSettings, setfile, vfiles).api_chapter_sel = 40

(***************************************************************************)
(* C18: a step of the picker's chapter cycles within [1, chapters(book)]   *)
(* (Left at 1 gives chapters(book), Right at chapters(book) gives 1),      *)
(* leaves the book as it is and caps the verse at                          *)
(* verses(book, new chapter).                                              *)
(***************************************************************************)
C18_ChapterStepCycles ==
    [][\A key \in {"Left", "Right"} :
          PickerKey(2, key) =>
             /\ api_book_sel' = api_book_sel
             /\ api_chapter_sel' >= 1
             /\ api_chapter_sel' <= chapters(api_book_sel)
             /\ api_chapter_sel' =
                   IF key = "Left"
                   THEN (IF api_chapter_sel = 1 THEN chapters(api_book_sel)
                         ELSE api_chapter_sel - 1)
                   ELSE (IF api_chapter_sel = chapters(api_book_sel) THEN 1
                         ELSE api_chapter_sel + 1)
             /\ api_verse_sel' = Min(api_verse_sel, verses(api_book_sel, api_chapter_sel'))]_vars

(***************************************************************************)
(* C19: a step of the picker's verse cycles within                         *)
(* [1, verses(book, chapter)] (Left at 1 gives the verse count of the      *)
(* chapter, Right at the verse count gives 1) and leaves book and chapter  *)
(* as they are; from a valid picker a Left followed by a Right restores    *)
(* the verse.                                                              *)
(***************************************************************************)
C19_VerseStepCycles ==
    [][/\ \A key \in {"Left", "Right"} :
            PickerKey(3, key) =>
               /\ api_book_sel' = api_book_sel
               /\ api_chapter_sel' = api_chapter_sel
               /\ api_chapter_sel >= 1 /\ api_chapter_sel <= chapters(api_book_sel)
               /\ api_verse_sel' >= 1
               /\ api_verse_sel' <= verses(api_book_sel, api_chapter_sel)
               /\ api_verse_sel' =
                     IF key = "Left"
                     THEN (IF api_verse_sel = 1 THEN verses(api_book_sel, api_chapter_sel)
                           ELSE api_verse_sel - 1)
                     ELSE (IF api_verse_sel = verses(api_book_sel, api_chapter_sel) THEN 1
                           ELSE api_verse_sel + 1)
       /\ PickerInRange(Picker) =>
             \A q \in picker_verse(Picker, "Left") : picker_verse(q, "Right") = {Picker}]_vars

(***************************************************************************)
(* C20: for every text and every column width handed to word_wrap the      *)
(* result has at most 8 lines, each of at most 31 characters and at most   *)
(* the effective column width (the width after the clamps); the lines are  *)
(* the text in order with nothing added (spaces at the breaks aside), all  *)
(* of it when fewer than 8 lines came out, and what lies beyond the 8th    *)
(* line is dropped with no mark in the lines.                              *)
(***************************************************************************)
C20_IsLetter(c) == c # CH_SP
C20_Letters(s) == SelectSeq(s, C20_IsLetter)
RECURSIVE C20_Flat(_)
C20_Flat(ls) == IF ls = <<>> THEN <<>> ELSE ls[1] \o C20_Flat(Tail(ls))
C20_WordWrapBounded ==
    LET kept == C20_Letters(C20_Flat(wrap))
        all == C20_Letters(wrap_call.text)
    IN  /\ Len(wrap) <= 8
        /\ \A i \in 1..Len(wrap) :
              /\ Len(wrap[i]) <= 31
              /\ Len(wrap[i]) <= word_wrap_cols(wrap_call.cols)
        /\ Len(kept) <= Len(all)
        /\ kept = SubSeq(all, 1, Len(kept))
        /\ Len(wrap) < 8 => kept = all
C20_Witness ==
    /\ pc = "open_verse"
    /\ wrap_call.cols = FONT_CHARS[2]
    /\ Len(wrap) = 8
    /\ \A i \in 1..Len(wrap) : Len(wrap[i]) = FONT_CHARS[2]
    /\ Len(C20_Flat(wrap)) < Len(wrap_call.text)

(***************************************************************************)
(* C21: word_wrap is idempotent: the lines of a wrap, joined by single     *)
(* spaces and wrapped again at the same width, come out as the same lines, *)
(* also when the first wrap broke a word or dropped text past the 8th line.*)
(***************************************************************************)
RECURSIVE C21_Join(_)
C21_Join(ls) ==
    IF ls = <<>> THEN <<>>
    ELSE IF Len(ls) = 1 THEN ls[1]
    ELSE ls[1] \o <<CH_SP>> \o C21_Join(Tail(ls))
C21_WrapIdempotent == word_wrap(C21_Join(wrap), wrap_call.cols) = wrap
C21_Witness ==
    /\ pc = "open_verse"
    /\ Len(wrap) = 8
    /\ Len(C20_Flat(wrap)) < Len(wrap_call.text)
    /\ C21_Join(wrap) # SubSeq(wrap_call.text, 1, Len(C21_Join(wrap)))

(***************************************************************************)
(* C30: with more than w characters left, word_wrap ends the line at the   *)
(* last space found 1..w characters after the start of the line (the line  *)
(* is the text before that space, and the one space is passed over); with  *)
(* no such space the line is exactly w characters; with at most w          *)
(* characters left they all are the final line.  (w is the width after the *)
(* clamps; the lines end at the 8th.)                                      *)
(***************************************************************************)
RECURSIVE C30_LinesFrom(_, _, _, _, _)
C30_LinesFrom(text, w, p, n, ls) ==
    LET rem == Len(text) - p
        sp == {b \in 1..w : rem > w /\ text[p + b + 1] = CH_SP}
    IN  IF ls = <<>> THEN rem <= 0 \/ n = WRAP_MAX_LINES
        ELSE IF rem <= w THEN rem > 0 /\ ls = <<SubSeq(text, p + 1, Len(text))>>
        ELSE IF sp # {}
        THEN \E b \in sp :
                /\ \A c \in sp : c <= b
                /\ ls[1] = SubSeq(text, p + 1, p + b)
                /\ C30_LinesFrom(text, w, p + b + 1, n + 1, Tail(ls))
        ELSE /\ ls[1] = SubSeq(text, p + 1, p + w)
             /\ C30_LinesFrom(text, w, p + w, n + 1, Tail(ls))
C30_BreakAtLastSpace ==
    C30_LinesFrom(wrap_call.text, word_wrap_cols(wrap_call.cols), 0, 0, wrap)
C30_Witness ==
    /\ pc = "open_verse"
    /\ \E i \in 1..(Len(wrap) - 1) :
          /\ Len(wrap[i]) = wrap_call.cols
          /\ C20_Letters(wrap[i]) = wrap[i]
          /\ Len(wrap[i + 1]) < wrap_call.cols
          /\ i + 1 < Len(wrap)

(***************************************************************************)
(* C22: read_verse_text fails, with an empty text, for an id at or above   *)
(* verse_count and without an open handle, and fails for a line at the     *)
(* stored offset that has fewer than two '|'; open_verse then shows the    *)
(* text "(read error)" in the verse view, and the application does not go  *)
(* to the error view for it.  A line that parses is shown with the text    *)
(* after its second '|'.                                                   *)
(***************************************************************************)
C22_Pipes(t) == Cardinality({i \in 1..Len(t) : t[i] = CH_PIPE})
C22_Failed(r) == ~r.ok /\ r.text = <<>>
C22_ReadFailureShown ==
    /\ \A vi \in verse_count..(verse_count + 1) :
          C22_Failed(read_verse_text(ActiveFile, vfile, fpos, index, verse_count, vi,
                                     LINE_BUF_LEN))
    /\ \A vi \in 0..(verse_count - 1) :
          C22_Failed(read_verse_text(ActiveFile, FALSE, fpos, index, verse_count, vi,
                                     LINE_BUF_LEN))
    /\ view # "ViewError"
    /\ pc = "open_verse" =>
          LET line == TruncFrom(ActiveFile, index[cur_verse + 1].offset)
          IN  /\ view = "ViewRandomVerse"
              /\ C22_Pipes(line) < 2 =>
                    /\ wrap_call.text = <<40, 114, 101, 97, 100, 32, 101, 114, 114, 111, 114, 41>>
                    /\ wrap = <<wrap_call.text>>
              /\ C22_Pipes(line) >= 2 =>
                    /\ Len(wrap_call.text) < Len(line)
                    /\ wrap_call.text = SubSeq(line, Len(line) - Len(wrap_call.text) + 1, Len(line))
                    /\ line[Len(line) - Len(wrap_call.text)] = CH_PIPE
                    /\ C22_Pipes(SubSeq(line, 1, Len(line) - Len(wrap_call.text))) = 2
C22_Witness ==
    /\ pc = "open_verse"
    /\ C22_Pipes(TruncFrom(ActiveFile, index[cur_verse + 1].offset)) = 1
    /\ wrap = <<READ_ERROR>>

(***************************************************************************)
(* C23: a line with fewer than two '|' gets no verse id from build_index,  *)
(* so every verse id of a built index resolves: read_verse_text succeeds   *)
(* on the unchanged file.                                                  *)
(***************************************************************************)
C23_EveryIdResolves ==
    pc = "build_index" =>
        \A vi \in 0..(verse_count - 1) :
            /\ C22_Pipes(TruncFrom(ActiveFile, index[vi + 1].offset)) >= 2
            /\ read_verse_text(ActiveFile, vfile, fpos, index, verse_count, vi, LINE_BUF_LEN).ok

(***************************************************************************)
(* C27: every call of build_index and of do_search is entered with the     *)
(* loading view shown: the caller has set view = ViewLoading just before.  *)
(***************************************************************************)
C27_PassesEnteredInLoading == pass_view \in {"none", "ViewLoading"}

(***************************************************************************)
(* C26: the error view is absorbing.  The startup that finds no verse      *)
(* file, and the startup or the switch whose file does not open or gives   *)
(* no verse, end in ViewError; from then on no event changes the view, and *)
(* the only event with an effect is a short Back, which ends the event     *)
(* loop (running = FALSE) and changes nothing else.                        *)
(***************************************************************************)
C26_ErrorViewAbsorbing ==
    [][/\ (pc = "start" /\ pc' = "loop" /\ (Len(corpus) = 0 \/ ~vfile' \/ verse_count' = 0))
            => view' = "ViewError"
       /\ (pc = "loop" /\ view = "ViewSettings" /\ vfile_sel' # vfile_sel
               /\ (~vfile' \/ verse_count' = 0))
            => view' = "ViewError"
       /\ (pc = "loop" /\ view = "ViewError")
            => /\ view' = "ViewError"
               /\ running => UNCHANGED <<passVars, bmVars, view, return_view, cur_verse,
                                          api_input_active, cfg_verse_file, setVars,
                                          wrapVars, dirVars, navVars, runVars, pc>>]_vars
C26_Witness ==
    /\ pc = "loop"
    /\ view = "ViewError"
    /\ ~running
    /\ vfile
    /\ vfile_sel > 0
    /\ verse_count = 0

(***************************************************************************)
(* C28: at most one verse file handle is open, in every state and at every *)
(* moment of an operation: the switch closes and frees the handle it holds *)
(* before it opens the new file, and a failed open leaves none open.       *)
(***************************************************************************)
C28_OneHandleOpen ==
    /\ handles <= 1
    /\ handles_peak <= 1
    /\ vfile <=> handles = 1
C28_Witness ==
    /\ pc = "loop"
    /\ view = "ViewSettings"
    /\ vfile_sel > 0
    /\ vfile
    /\ handles = 1
    /\ handles_peak = 1

(***************************************************************************)
(* C24: discover_verse_files lists at most 8 files and none twice: the     *)
(* canonical files of the directory first, in the order verses_en,         *)
(* verses_esv, verses_de, then the other files named verses_<code>.txt in  *)
(* the order of the directory scan; what would come after the 8th entry is *)
(* not added.                                                              *)
(***************************************************************************)
C24_IsFile(name) == \E i \in 1..Len(dir) : dir[i].name = name /\ ~dir[i].is_dir
C24_IsKnown(name) == \E k \in 1..Len(VFILE_NAMES) : name = VFILE_NAMES[k]
C24_Other(e) ==
    /\ ~e.is_dir
    /\ Len(e.name) >= Len(VERSES_PREFIX) + Len(TXT_SUFFIX)
    /\ SubSeq(e.name, 1, Len(VERSES_PREFIX)) = VERSES_PREFIX
    /\ SubSeq(e.name, Len(e.name) - Len(TXT_SUFFIX) + 1, Len(e.name)) = TXT_SUFFIX
    /\ ~C24_IsKnown(e.name)
C24_Found ==
    SelectSeq(VFILE_NAMES, C24_IsFile)
        \o [i \in 1..Len(SelectSeq(dir, C24_Other)) |-> SelectSeq(dir, C24_Other)[i].name]
C25_Saved(i) == setfile.exists /\ setfile.data = settings_line(KEY_VERSE_FILE, vfiles[i])
C25_Slot ==
    IF \E i \in 1..Len(vfiles) : C25_Saved(i)
    THEN (CHOOSE i \in 1..Len(vfiles) : C25_Saved(i) /\ \A j \in 1..(i - 1) : ~C25_Saved(j)) - 1
    ELSE 0
C25_StartupSlotAlways ==
    pc = "loop" => vfile_sel = C25_Slot /\ vfile_sel < Len(vfiles)
C25_StartupSlot ==
    pc = "loop" /\ Len(vfiles) > 0 => vfile_sel = C25_Slot /\ vfile_sel < Len(vfiles)
C25_Witness ==
    /\ pc = "loop"
    /\ Len(vfiles) > 1
    /\ vfile_sel = 1
    /\ C25_Saved(2)
    /\ vfile
    /\ view = "ViewMainMenu"

(***************************************************************************)
(* C29: the static tables are consistent.  For the book the picker is on   *)
(* (every book 0..65 is reached): VERSE_COUNT_OFFSET[book] is the sum of   *)
(* the chapter counts of the books before it; the flat table has 1189      *)
(* entries, the offset of the last book plus its chapter count; and for    *)
(* every chapter of the book VERSE_COUNTS[VERSE_COUNT_OFFSET[book] +       *)
(* chapter - 1], which book_chapter_verses returns, is in 1..176.          *)
(***************************************************************************)
RECURSIVE C29_ChaptersBefore(_)
C29_ChaptersBefore(b) == IF b = 0 THEN 0 ELSE C29_ChaptersBefore(b - 1) + BIBLE_BOOKS[b]
C29_TablesConsistent ==
    api_book_sel \in 0..(BIBLE_BOOKS_COUNT - 1) =>
        /\ Len(BIBLE_BOOKS) = BIBLE_BOOKS_COUNT
        /\ Len(VERSE_COUNT_OFFSET) = BIBLE_BOOKS_COUNT
        /\ VERSE_COUNT_OFFSET[api_book_sel + 1] = C29_ChaptersBefore(api_book_sel)
        /\ Len(VERSE_COUNTS) = 1189
        /\ VERSE_COUNT_OFFSET[BIBLE_BOOKS_COUNT] + BIBLE_BOOKS[BIBLE_BOOKS_COUNT] = 1189
        /\ \A c \in 1..BIBLE_BOOKS[api_book_sel + 1] :
              /\ book_chapter_verses(api_book_sel, c)
                    = {VERSE_COUNTS[VERSE_COUNT_OFFSET[api_book_sel + 1] + c - 1 + 1]}
              /\ book_chapter_verses(api_book_sel, c) \subseteq 1..176
C29_Witness ==
    /\ view = "ViewApiMenu"
    /\ api_book_sel = BIBLE_BOOKS_COUNT - 1
    /\ api_chapter_sel = BIBLE_BOOKS[BIBLE_BOOKS_COUNT]
    /\ book_chapter_verses(api_book_sel, api_chapter_sel) = {VERSE_COUNTS[1189]}
    /\ api_verse_sel = VERSE_COUNTS[1189]

(***************************************************************************)
(* C40: word_wrap loses no text but the break spaces and the overflow: the *)
(* lines are non-empty slices of the text, in order and without overlap,   *)
(* the first at position 0 and each next one right after the one before or *)
(* after one space that follows it; with fewer than 8 lines they, and the  *)
(* spaces passed over, are the whole text.                                 *)
(***************************************************************************)
\* the positions of text the lines ls can end at when the first starts at p
RECURSIVE C40_Ends(_, _, _)
C40_Ends(text, p, ls) ==
    IF ls = <<>> THEN {p}
    ELSE LET e == p + Len(ls[1])
         IN  IF Len(ls[1]) = 0 \/ e > Len(text) \/ SubSeq(text, p + 1, e) # ls[1] THEN {}
             ELSE IF Len(ls) = 1
             THEN {e} \cup {q \in {e + 1} : q <= Len(text) /\ text[q] = CH_SP}
             ELSE C40_Ends(text, e, Tail(ls))
                  \cup (IF e < Len(text) /\ text[e + 1] = CH_SP
                        THEN C40_Ends(text, e + 1, Tail(ls)) ELSE {})
C40_NoTextLost ==
    /\ C40_Ends(wrap_call.text, 0, wrap) # {}
    /\ Len(wrap) < 8 => Len(wrap_call.text) \in C40_Ends(wrap_call.text, 0, wrap)
C40_Witness ==
    /\ pc = "open_verse"
    /\ Len(wrap) >= 3
    /\ Len(wrap) < 8
    /\ \E i \in 1..Len(wrap) :
          Len(wrap[i]) = wrap_call.cols /\ C20_Letters(wrap[i]) = wrap[i]
    /\ Len(C20_Flat(wrap)) < Len(wrap_call.text)
    /\ Len(wrap_call.text) \in C40_Ends(wrap_call.text, 0, wrap)

(***************************************************************************)
(* C36: the bookmark list in memory is a set: in every reachable state no  *)
(* verse id is at two positions below bmarks.count, also right after       *)
(* bmarks_load of any bookmarks.txt.                                       *)
(***************************************************************************)
C36_BookmarksAreSet ==
    \A i, j \in 1..Len(bmarks) : i # j => bmarks[i] # bmarks[j]

(***************************************************************************)
(* C37: every call of book_chapter_verses(book, chapter) the picker rows   *)
(* make has book < 66 and 1 <= chapter <= chapters(book), so that it reads *)
(* VERSE_COUNTS below entry 1189: the Book row calls it with the new book  *)
(* and the clamped chapter, the Chapter row with the new chapter, the      *)
(* Verse row with the chapter held; after settings_load of any file and    *)
(* any sequence of picker keys.                                            *)
(***************************************************************************)
C37_Inside(book, chapter) ==
    /\ book >= 0 /\ book < BIBLE_BOOKS_COUNT
    /\ chapter >= 1 /\ chapter <= chapters(book)
    /\ VERSE_COUNT_OFFSET[book + 1] + chapter - 1 < 1189
C37_LookupsInsideTable ==
    [][\A key \in {"Left", "Right"} :
          /\ PickerKey(1, key) => C37_Inside(api_book_sel', api_chapter_sel')
          /\ PickerKey(2, key) => C37_Inside(api_book_sel, api_chapter_sel')
          /\ PickerKey(3, key) => C37_Inside(api_book_sel, api_chapter_sel)]_vars

(***************************************************************************)
(* C33: while the application runs, in every state whose view is neither   *)
(* ViewLoading nor ViewError the index holds a verse (verse_count >= 1)    *)
(* and the verse file handle is open, so that the random and the daily     *)
(* verse never take a remainder by 0.                                      *)
(***************************************************************************)
C33_VersesWhileBrowsing ==
    pc = "loop" /\ view \notin {"ViewLoading", "ViewError"} => verse_count >= 1 /\ vfile
C33_Witness ==
    /\ pc = "loop"
    /\ view = "ViewRandomVerse"
    /\ vfile_sel = 1
    /\ verse_count = 2
    /\ cur_verse = verse_count - 1
    /\ vfile

(***************************************************************************)
(* C38: no view traps the user.  Every state of the running event loop has *)
(* a rank, at most the number of characters of the search buffer plus 4; a *)
(* short Back is handled in every such state and every way it is handled   *)
(* takes the rank down by one; from rank 2 it shows the main menu and from *)
(* rank 1 it ends the loop (running = false).  As stated, with the main    *)
(* menu always on the way, it fails in the error view, where the short     *)
(* Back ends the loop at once; it holds with the error and loading views   *)
(* excepted.                                                               *)
(***************************************************************************)
\* a short press of Back, handed to the handler of the current view
C38_ShortBack ==
    LET ev == [type |-> "Short", key |-> "Back"]
    IN  \/ on_main_menu(ev) \/ on_browse(ev) \/ on_verse_read(ev) \/ on_search_input(ev)
        \/ on_search_results(ev) \/ on_random_daily(ev, TRUE) \/ on_random_daily(ev, FALSE)
        \/ on_bookmarks(ev) \/ on_settings(ev) \/ on_about(ev)
        \/ on_error(ev, "ViewError") \/ on_error(ev, "ViewLoading")
        \/ on_api_menu(ev) \/ on_api_result(ev) \/ on_api_trans(ev)
        \/ on_api_status(ev) \/ on_api_error(ev)
\* the short Back presses that are left from view v
C38_RankOf(v) ==
    CASE v \in {"ViewMainMenu", "ViewError", "ViewLoading"} -> 1
      [] v \in {"ViewBrowseList", "ViewBookmarks", "ViewSettings", "ViewAbout",
                "ViewRandomVerse", "ViewDailyVerse", "ViewApiMenu"} -> 2
      [] v \in {"ViewApiResult", "ViewApiTrans", "ViewApiStatus", "ViewApiError"} -> 3
      [] v = "ViewSearchInput" -> Len(search_buf) + (IF api_input_active THEN 3 ELSE 2)
      [] v = "ViewSearchResults" -> Len(search_buf) + (IF api_input_active THEN 4 ELSE 3)
      [] OTHER -> 0
C38_Rank ==
    IF ~running THEN 0
    ELSE IF view = "ViewVerseRead" THEN 1 + C38_RankOf(return_view)
    ELSE C38_RankOf(view)
C38_Progress ==
    pc = "loop" /\ running =>
        /\ C38_Rank >= 1
        /\ C38_Rank <= Len(search_buf) + 4
        /\ ENABLED C38_ShortBack
        /\ ~ENABLED (/\ C38_ShortBack
                     /\ ~(/\ C38_Rank' = C38_Rank - 1
                          /\ C38_Rank = 2 => view' = "ViewMainMenu"))
C38_BackLeavesByMenu ==
    /\ C38_Progress
    /\ pc = "loop" /\ running /\ C38_Rank = 1 => view = "ViewMainMenu"
C38_BackLeaves ==
    /\ C38_Progress
    /\ pc = "loop" /\ running /\ C38_Rank = 1
          => view \in {"ViewMainMenu", "ViewError", "ViewLoading"}
C38_Witness ==
    /\ pc = "loop"
    /\ running
    /\ view = "ViewVerseRead"
    /\ return_view = "ViewSearchResults"
    /\ Len(search_buf) > 0
    /\ C38_Rank = Len(search_buf) + 4

(***************************************************************************)
(* C34: whenever the bookmarks view is shown with a non-empty list, the    *)
(* cursor is on an existing bookmark: bmarks.sel < bmarks.count.           *)
(***************************************************************************)
C34_CursorOnBookmark ==
    pc = "loop" /\ view = "ViewBookmarks" /\ Len(bmarks) > 0 => bmarks_sel < Len(bmarks)

(***************************************************************************)
(* C35: every verse id handed to open_verse is below verse_count, in every *)
(* run of events, corpus switches and bookmark removals included.          *)
(***************************************************************************)
C35_OpenWithinIndex ==
    open_call # NoOpenCall =>
        /\ 0 <= open_call.vi
        /\ open_call.vi < open_call.verse_count
C35_Witness ==
    /\ view = "ViewVerseRead"
    /\ return_view = "ViewBrowseList"
    /\ vfile_sel = 1
    /\ open_call = [vi |-> 0, verse_count |-> 1]
    /\ Len(bmarks_rest) = 2
C35_WitnessStaleSlot ==
    /\ view = "ViewVerseRead"
    /\ return_view = "ViewBookmarks"
    /\ Len(bmarks) = 1
    /\ bmarks_sel = 1
    /\ nav_events = 6
    /\ open_call = [vi |-> MaxNavLines - 1, verse_count |-> MaxNavLines]

(***************************************************************************)
(* C31: a switch of the verse file that succeeds leaves verse_count and    *)
(* the index entries those of the new file, cur_verse = -1, the browse     *)
(* cursor and scroll 0, no bookmark, and the new selection in settings.txt;*)
(* a switch that fails shows the error view and writes no settings.        *)
(***************************************************************************)
C31_SwitchStep == view = "ViewSettings" /\ vfile_sel' # vfile_sel
C31_SwitchLeavesNothing ==
    [][C31_SwitchStep =>
         \/ /\ view' = "ViewSettings"
            /\ LET W == C3_RecordLines(corpus[vfile_sel' + 1]) IN
               /\ verse_count' = Min(MAX_VERSES, Cardinality(W))
               /\ verse_count' = Len(index')
               /\ \A i \in 1..verse_count' :
                     /\ index'[i].offset \in W
                     /\ Cardinality({ w \in W : w < index'[i].offset }) = i - 1
            /\ cur_verse' = -1
            /\ browse_sel' = 0
            /\ browse_scroll' = 0
            /\ bmarks' = <<>>
            /\ setfile'.exists
            /\ settings_load_text(ZeroSettings, setfile', vfiles).vfile_sel = vfile_sel'
         \/ /\ view' = "ViewError"
            /\ setfile' = setfile]_vars
C31_Witness ==
    /\ view = "ViewSettings"
    /\ vfile_sel = 1
    /\ verse_count = 1
    /\ cur_verse = -1
    /\ bmarks = <<>>
    /\ Len(bmarks_rest) = 2
    /\ setfile.exists
    /\ settings_load_text(ZeroSettings, setfile, vfiles).vfile_sel = 1
C31_WitnessFailed ==
    /\ view = "ViewError"
    /\ nav_events >= 2
    /\ ~setfile.exists

(***************************************************************************)
(* C32: Verse of the Day on a day whose counter is the stored one and with *)
(* a stored index below verse_count opens the stored verse and writes no   *)
(* settings; otherwise it picks an index below verse_count, stores the     *)
(* day counter and saves the settings, and opens that verse.               *)
(***************************************************************************)
C32_DailyStep == view = "ViewMainMenu" /\ view' = "ViewDailyVerse"
C39_LeaveStep == view = "ViewApiMenu" /\ view' = "ViewMainMenu"
C39_LeftWithPickerSaved ==
    [][C39_LeaveStep =>
         /\ setfile'.exists
         /\ LET saved == settings_load_text(ZeroSettings, setfile', vfiles) IN
            /\ saved.api_book_sel = api_book_sel'
            /\ saved.api_chapter_sel = api_chapter_sel'
            /\ saved.api_verse_sel = api_verse_sel'
            /\ saved.api_trans_sel = api_trans_sel']_vars

====
